---- MODULE Spec2Model ----
(***************************************************************************)
(* A model of yamap: the schema hierarchy of yamap/schema.py, the helper   *)
(* functions of yamap/util.py and the stack based evaluator load_and_map   *)
(* of yamap/mapper.py.                                                     *)
(*                                                                         *)
(* Strings that regular expressions are matched against (mapping keys and  *)
(* scalar payloads) are sequences of symbols: a symbol is a character, or  *)
(* a run of characters that no pattern of the model looks into.  YAML tags *)
(* are abbreviated to their last component ("str" for                      *)
(* tag:yaml.org,2002:str).                                                 *)
(* A document node is a record [tag, value, items, pairs]: value is the    *)
(* payload of a scalar, items the children of a sequence node and pairs    *)
(* the <<key node, value node>> tuples of a mapping node (node.value in    *)
(* ruamel.yaml holds whichever of the three applies).                      *)
(***************************************************************************)
EXTENDS Integers, Sequences, FiniteSets, Bags, TLC

\* Bounds of the generated schemas and documents.
MaxPairs == 2
MaxItems == 2
MaxRules == 2
MaxCands == 2
MaxObjs == 3

VARIABLES
    prog,     \* the schema expression of the program (builder calls)
    doc,      \* the root node composed from the YAML stream
    schema,   \* the schema value the expression evaluated to
    stack,    \* load_and_map: the stack of stackitems
    done,     \* stackitems popped so far, in order (node path, schema, value)
    pc,       \* "construct", "load", "loop", "returned", "raised"
    result,   \* the value load returned
    error,    \* the exception that ended the program
    heap,     \* builder machine: the schema objects alive, by reference
    lastcall, \* builder machine: the last builder call (receiver, result)
    loads,    \* builder machine: the loads made so far and their outcomes
    log,      \* history of load_and_map: the calls and stack operations made
    steps     \* the number of steps the program has run since it started

vars ==
    <<prog, doc, schema, stack, done, pc, result, error, heap, lastcall, loads,
      log, steps>>

----------------------------------------------------------------------------
\* Regular expressions: a compiled pattern is its source text together with
\* a sequence of atoms; an atom matches one character and may be repeated.

Lit(c) == [cls |-> "lit", ch |-> c, plus |-> FALSE]
Digit == [cls |-> "digit", ch |-> "", plus |-> FALSE]
AnyPlus == [cls |-> "any", ch |-> "", plus |-> TRUE]
UpperPlus == [cls |-> "upper", ch |-> "", plus |-> TRUE]

Digits == {"1", "2"}
Uppers == {"A", "B", "E", "M", "N"}

AtomMatches(atom, c) ==
    CASE atom.cls = "lit" -> c = atom.ch
      [] atom.cls = "digit" -> c \in Digits
      [] atom.cls = "upper" -> c \in Uppers
      [] OTHER -> TRUE

\* re.Pattern.match: the atoms match a prefix of s from position j on.
RECURSIVE MatchFromPrefix(_, _, _, _)
MatchFromPrefix(atoms, i, s, j) ==
    IF i > Len(atoms) THEN TRUE
    ELSE IF j > Len(s) THEN FALSE
    ELSE /\ AtomMatches(atoms[i], s[j])
         /\ \/ MatchFromPrefix(atoms, i + 1, s, j + 1)
            \/ atoms[i].plus /\ MatchFromPrefix(atoms, i, s, j + 1)

\* re.Pattern.fullmatch from position i of the pattern and j of the string:
\* the whole rest of the string has to be consumed.
RECURSIVE MatchFrom(_, _, _, _)
MatchFrom(atoms, i, s, j) ==
    IF i > Len(atoms) THEN j > Len(s)
    ELSE IF j > Len(s) THEN FALSE
    ELSE /\ AtomMatches(atoms[i], s[j])
         /\ \/ MatchFrom(atoms, i + 1, s, j + 1)
            \/ atoms[i].plus /\ MatchFrom(atoms, i, s, j + 1)

fullmatch(regex, s) == MatchFrom(regex.atoms, 1, s, 1)

\* re.compile: the pattern is given as the sequence of its tokens, a token
\* being a character class with its repetition or a literal symbol.
re_compile(pattern) ==
    [pattern |-> pattern,
     atoms |-> [i \in 1..Len(pattern) |->
                  CASE pattern[i] = "\\d" -> Digit
                    [] pattern[i] = ".+" -> AnyPlus
                    [] pattern[i] = "[A-Z]+" -> UpperPlus
                    [] OTHER -> Lit(pattern[i])]]

NoRegex == [pattern |-> <<"None">>, atoms |-> <<>>]
MissingValue == <<"MISSING">>

----------------------------------------------------------------------------
\* Document nodes.

ScalarNode(tag, value) ==
    [tag |-> tag, value |-> value, items |-> <<>>, pairs |-> <<>>]
SequenceNode(items) ==
    [tag |-> "seq", value |-> <<>>, items |-> items, pairs |-> <<>>]
MappingNode(pairs) ==
    [tag |-> "map", value |-> <<>>, items |-> <<>>, pairs |-> pairs]

\* A list iterated from its first item on.
not_reversed(s) == s

\* Python's reversed() of a list.
reversed(s) == [i \in 1..Len(s) |-> s[Len(s) + 1 - i]]

----------------------------------------------------------------------------
\* Exceptions.  node is the path of the node the exception carries (see
\* NodeAt), keys_repr the patterns a MappingError of match_children names.

NoPath == <<0>>
Exc(kind, msg, node, keys_repr) ==
    [kind |-> kind, msg |-> msg, node |-> node, keys_repr |-> keys_repr]
NoError == Exc("none", "", NoPath, <<>>)
SchemaError(msg) == Exc("SchemaError", msg, NoPath, <<>>)
MappingError(msg, keys_repr, node) == Exc("MappingError", msg, node, keys_repr)
NoMatchingType(node) == Exc("NoMatchingType", "Found no matching type", node, <<>>)
TypeError == Exc("TypeError", "", NoPath, <<>>)
ValueError == Exc("ValueError", "", NoPath, <<>>)
RuntimeError(msg) == Exc("RuntimeError", msg, NoPath, <<>>)

----------------------------------------------------------------------------
\* Python values.  kind is the type of the value, value the text of a
\* scalar, items the elements of a tuple or list, the (key, value) tuples
\* of a dict or the positional arguments an object was created from, and
\* kwitems the keyword arguments an object was created from.

PyValue(kind, value, items, kwitems) ==
    [kind |-> kind, value |-> value, items |-> items, kwitems |-> kwitems]
PyNone == PyValue("NoneType", <<>>, <<>>, <<>>)
PyStr(s) == PyValue("str", s, <<>>, <<>>)
PyTuple(items) == PyValue("tuple", <<>>, items, <<>>)
PyList(items) == PyValue("list", <<>>, items, <<>>)
PyDict(items) == PyValue("dict", <<>>, items, <<>>)

\* The outcome of a call: the value returned or the exception raised.
Returned(v) == [exc |-> NoError, val |-> v]
Raised(e) == [exc |-> e, val |-> PyNone]

IsIterable(v) == v.kind \in {"tuple", "list", "dict", "str"}
Elements(v) ==
    CASE v.kind = "dict" -> [i \in 1..Len(v.items) |-> v.items[i].items[1]]
      [] v.kind = "str" -> [i \in 1..Len(v.value) |-> PyStr(<<v.value[i]>>)]
      [] OTHER -> v.items

RECURSIVE IsHashable(_)
IsHashable(v) ==
    CASE v.kind = "tuple" -> \A i \in 1..Len(v.items) : IsHashable(v.items[i])
      [] v.kind \in {"str", "int", "float", "bool", "NoneType"} -> TRUE
      [] OTHER -> FALSE

\* A container that keeps every (key, value) tuple it is given.
multidict_setitem(d, k, v) == Append(d, PyTuple(<<k, v>>))

\* d[k] = v on the (key, value) tuples of a dict: a key already present keeps
\* its place and takes the new value, a new key goes to the end.
dict_setitem(d, k, v) ==
    IF \E i \in 1..Len(d) : d[i].items[1] = k
    THEN [i \in 1..Len(d) |-> IF d[i].items[1] = k THEN PyTuple(<<k, v>>) ELSE d[i]]
    ELSE Append(d, PyTuple(<<k, v>>))

RECURSIVE dict_update(_, _, _)
dict_update(d, elems, i) ==
    IF i > Len(elems) THEN Returned(PyDict(d))
    ELSE IF ~IsIterable(elems[i]) THEN Raised(TypeError)
    ELSE IF Len(Elements(elems[i])) # 2 THEN Raised(ValueError)
    ELSE IF ~IsHashable(Elements(elems[i])[1]) THEN Raised(TypeError)
    ELSE dict_update(dict_setitem(d, Elements(elems[i])[1], Elements(elems[i])[2]),
                     elems, i + 1)

\* The builtins dict(arg) and list(arg).
py_dict(arg) ==
    IF arg.kind = "dict" THEN Returned(arg)
    ELSE IF ~IsIterable(arg) THEN Raised(TypeError)
    ELSE dict_update(<<>>, Elements(arg), 1)

py_list(arg) ==
    IF IsIterable(arg) THEN Returned(PyList(Elements(arg))) ELSE Raised(TypeError)

KwNames(kwargs) == {kwargs[i].items[1] : i \in 1..Len(kwargs)}
KwGet(kwargs, name) ==
    (CHOOSE t \in {kwargs[i] : i \in 1..Len(kwargs)} : t.items[1] = name).items[2]

\* util.pair called with positional arguments args and keyword arguments
\* kwargs: its parameters are a and b.
pair(args, kwargs) ==
    LET names == <<PyStr(<<"a">>), PyStr(<<"b">>)>>
        given(n) == n <= Len(args) \/ names[n] \in KwNames(kwargs)
        arg(n) == IF n <= Len(args) THEN args[n] ELSE KwGet(kwargs, names[n])
    IN  IF \/ Len(args) > 2
           \/ \E k \in KwNames(kwargs) : \A n \in 1..2 : k # names[n]
           \/ \E n \in 1..2 : n <= Len(args) /\ names[n] \in KwNames(kwargs)
           \/ ~given(1) \/ ~given(2)
        THEN Raised(TypeError)
        ELSE Returned(PyTuple(<<arg(1), arg(2)>>))

\* callable(*args, **kwargs).  dict, list and pair are the functions of
\* that name; any other callable stands for a class of the caller (entry,
\* pipeline) and yields an object recording the arguments it was given.
Call(fn, args, kwargs) ==
    CASE fn = "list" ->
           IF kwargs # <<>> \/ Len(args) > 1 THEN Raised(TypeError)
           ELSE IF args = <<>> THEN Returned(PyList(<<>>))
           ELSE py_list(args[1])
      [] fn = "dict" ->
           IF Len(args) > 1 THEN Raised(TypeError)
           ELSE LET base == IF args = <<>> THEN Returned(PyDict(<<>>))
                            ELSE py_dict(args[1])
                IN  IF base.exc # NoError THEN base
                    ELSE dict_update(base.val.items, kwargs, 1)
      [] fn = "pair" -> pair(args, kwargs)
      [] OTHER -> Returned(PyValue(fn, <<>>, args, kwargs))

\* Callables as schema fields: fn names the callable (None: no callable)
\* and wrap the wrapper of util.py put around it.
Callable(fn) == [fn |-> fn, wrap |-> "none"]
None == Callable("None")
MISSING == Callable("MISSING")

squashed(callable) == [callable EXCEPT !.wrap = "squash"]
unpacked_map(callable) == [callable EXCEPT !.wrap = "unpack_map"]
unpacked_seq(callable) == [callable EXCEPT !.wrap = "unpack_seq"]

\* A squash that hands on the value of the single pair without its key.
squashed_value(callable, items) ==
    IF Len(items.items) = 1
    THEN Call(callable.fn, <<items.items[1].items[2]>>, <<>>)
    ELSE Raised(RuntimeError("Not exactly one element"))

\* util.squashed.<locals>.squash
squashed_squash(callable, items) ==
    IF Len(items.items) = 1 THEN Call(callable.fn, <<items.items[1]>>, <<>>)
    ELSE Raised(RuntimeError("Not exactly one element"))

\* util.unpacked_map.<locals>.unpack: callable(**dict(items))
unpacked_map_unpack(callable, items) ==
    LET d == py_dict(items)
    IN  IF d.exc # NoError THEN d
        ELSE IF \E k \in KwNames(d.val.items) : k.kind # "str" THEN Raised(TypeError)
        ELSE Call(callable.fn, <<>>, d.val.items)

\* util.unpacked_seq.<locals>.unpack: callable(*items)
unpacked_seq_unpack(callable, items) == Call(callable.fn, items.items, <<>>)

\* Calling a schema's type on one value.
CallType(callable, value) ==
    CASE callable.wrap = "squash" -> squashed_squash(callable, value)
      [] callable.wrap = "unpack_map" -> unpacked_map_unpack(callable, value)
      [] callable.wrap = "unpack_seq" -> unpacked_seq_unpack(callable, value)
      [] OTHER -> Call(callable.fn, <<value>>, <<>>)

\* util.as_scalar; the scalar constructors of ruamel.yaml keep the text.
as_scalar(node) ==
    CASE node.tag = "null" -> PyNone
      [] node.tag \in {"bool", "float", "int"} -> PyValue(node.tag, node.value, <<>>, <<>>)
      [] OTHER -> PyStr(node.value)

----------------------------------------------------------------------------
\* Schema classes.  A schema object is a record of its dataclass fields and
\* its class, cls.  A tag pattern is kept as the set of tags it fully
\* matches.

MissingTag == {"MISSING"}

\* The tag class attribute of each schema class.
ClassTag(cls) ==
    CASE cls = "yascalar" -> {"str", "int", "float", "null", "bool"}
      [] cls = "yastr" -> {"str"}
      [] cls = "yanull" -> {"null"}
      [] cls = "yabool" -> {"bool"}
      [] cls = "yanumber" -> {"int", "float"}
      [] cls = "yaint" -> {"int"}
      [] cls = "yafloat" -> {"float"}
      [] cls = "yamap" -> {"map"}
      [] cls = "yaseq" -> {"seq"}

ScalarClasses ==
    {"yascalar", "yastr", "yanull", "yabool", "yanumber", "yaint", "yafloat"}

\* The outcome of a constructor or of matches: the object or the exception.
Built(obj) == [exc |-> NoError, obj |-> obj]
Failed(e) == [exc |-> e, obj |-> [cls |-> "None"]]

\* yanode.__init__ on an object self that has the attributes of its class.
yanode_init(self, tag, type) ==
    LET s1 == IF tag # MissingTag THEN [self EXCEPT !.tag = tag] ELSE self
        s2 == IF type # MISSING THEN [s1 EXCEPT !.type = type] ELSE s1
    IN  IF "tag" \notin DOMAIN s2
        THEN Failed(SchemaError("Field 'tag' neither defined as class attribute nor constructor argument"))
        ELSE Built(s2)

\* yascalar.__init__ (and that of its subclasses); value is a pattern or
\* MissingValue.
yascalar_init(cls, tag, type, value) ==
    LET self == [cls |-> cls, tag |-> ClassTag(cls), type |-> None,
                 value |-> NoRegex, construct |-> "as_scalar"]
        b == yanode_init(self, tag, type)
    IN  IF b.exc # NoError THEN b
        ELSE IF value # MissingValue
        THEN Built([b.obj EXCEPT !.value = re_compile(value)])
        ELSE b

yaoneof_init(entries) == [cls |-> "yaoneof", entries |-> entries]

yaentry_init(required, repeat) ==
    [cls |-> "yaentry", required |-> required, repeat |-> repeat, keys |-> <<>>]

yaexpand_init(key, value_schema, type) ==
    [cls |-> "yaexpand", key |-> key, value_schema |-> value_schema, type |-> type]

\* A yamap.__init__ that accepts every combination of its arguments.
yamap_init_nocheck(tag, type, squash, unpack) ==
    LET self == [cls |-> "yamap", tag |-> ClassTag("yamap"),
                 type |-> Callable("dict"), entries |-> <<>>]
        t == IF type = MISSING THEN self.type ELSE type
    IN  yanode_init(self, tag,
                    IF t = None THEN t
                    ELSE IF squash THEN squashed(t)
                    ELSE IF unpack THEN unpacked_map(t)
                    ELSE t)

\* yamap.__init__
yamap_init(tag, type, squash, unpack) ==
    LET self == [cls |-> "yamap", tag |-> ClassTag("yamap"),
                 type |-> Callable("dict"), entries |-> <<>>]
        t == IF type = MISSING THEN self.type ELSE type
    IN  IF squash /\ unpack
        THEN Failed(SchemaError("squash and unpack cannot be used at the same time"))
        ELSE IF t = None /\ (squash \/ unpack)
        THEN Failed(SchemaError("squash and unpack require a type"))
        ELSE yanode_init(self, tag,
                         IF t = None THEN t
                         ELSE IF squash THEN squashed(t)
                         ELSE IF unpack THEN unpacked_map(t)
                         ELSE t)

\* yaseq.__init__
yaseq_init(tag, type, unpack) ==
    LET self == [cls |-> "yaseq", tag |-> ClassTag("yaseq"),
                 type |-> Callable("list"), schema |-> yaoneof_init(<<>>)]
        t == IF type = MISSING THEN self.type ELSE type
    IN  IF t = None /\ unpack
        THEN Failed(SchemaError("unpack requires a type"))
        ELSE yanode_init(self, tag,
                         IF t # None /\ unpack THEN unpacked_seq(t) ELSE t)

\* A class given where an instance is expected.
Class(name) == [cls |-> "class", name |-> name]

\* util.mkobj: cls() for a class, the instance itself otherwise.
mkobj(cls_or_instance) ==
    IF cls_or_instance.cls = "class"
    THEN CASE cls_or_instance.name = "yamap" ->
                yamap_init(MissingTag, MISSING, FALSE, FALSE).obj
           [] cls_or_instance.name = "yaseq" ->
                yaseq_init(MissingTag, MISSING, FALSE).obj
           [] OTHER ->
                yascalar_init(cls_or_instance.name, MissingTag, MISSING, MissingValue).obj
    ELSE cls_or_instance

----------------------------------------------------------------------------
\* Builder methods.  Objects live in a heap h, a sequence of objects, and
\* are referred to by their index; a method returns the heap it leaves and
\* the reference it returns.  The tuples a field holds are immutable and
\* held by value.

\* A copy that sets the fields named in kwargs on self and returns self.
copy_in_place(h, self, kwargs) ==
    [heap |-> [h EXCEPT ![self] =
                  [f \in DOMAIN h[self] |->
                      IF f \in DOMAIN kwargs THEN kwargs[f] ELSE h[self][f]]],
     ref |-> self]

\* yacopyable.copy: new = copy.copy(self), then the fields named in kwargs
\* are set on new.
copy(h, self, kwargs) ==
    LET new == Len(h) + 1
        h1 == Append(h, h[self])
    IN  [heap |-> [h1 EXCEPT ![new] =
                      [f \in DOMAIN h1[new] |->
                          IF f \in DOMAIN kwargs THEN kwargs[f] ELSE h1[new][f]]],
         ref |-> new]

yaoneof_case(h, self, entry) ==
    copy(h, self, [entries |-> h[self].entries \o <<mkobj(entry)>>])

yaentry_case(h, self, pattern, sch, type) ==
    copy(h, self,
         [keys |-> h[self].keys \o <<<<re_compile(pattern), mkobj(sch), type>>>>])

yamap_entry(h, self, entry) ==
    copy(h, self, [entries |-> h[self].entries \o <<entry>>])

yamap_case(h, self, regex, sch, type, repeat, required) ==
    LET h1 == Append(h, yaentry_init(required, repeat))
        e == yaentry_case(h1, Len(h1), regex, sch, type)
    IN  yamap_entry(e.heap, self, e.heap[e.ref])

yamap_zero_or_one(h, self, regex, sch, type) ==
    yamap_case(h, self, regex, sch, type, FALSE, FALSE)
yamap_exactly_one(h, self, regex, sch, type) ==
    yamap_case(h, self, regex, sch, type, FALSE, TRUE)
yamap_zero_or_more(h, self, regex, sch, type) ==
    yamap_case(h, self, regex, sch, type, TRUE, FALSE)
yamap_one_or_more(h, self, regex, sch, type) ==
    yamap_case(h, self, regex, sch, type, TRUE, TRUE)

\* yaseq.case: self.schema is the object the schema field refers to.
yaseq_case(h, self, sch) ==
    LET h1 == Append(h, h[self].schema)
        o == yaoneof_case(h1, Len(h1), sch)
    IN  copy(o.heap, self, [schema |-> o.heap[o.ref]])

\* The object a builder call returned.
Deref(r) == r.heap[r.ref]

----------------------------------------------------------------------------
\* Matching.  A node is handed around with its path in the document, which
\* stands for the identity of the node object: the root is <<>>, item i of
\* a sequence at p and the value of pair i of a mapping at p are
\* Append(p, i), and the key of pair i is Append(Append(p, i), 0).

KeyPath(p, i) == Append(Append(p, i), 0)

\* The outcome of matches: the concrete type, or NoMatchingType; consulted
\* is the number of candidates of an alternation whose matches was called.
Matched(obj) == [exc |-> NoError, obj |-> obj, consulted |-> 0]
Unmatched(path) ==
    [exc |-> NoMatchingType(path), obj |-> [cls |-> "None"], consulted |-> 0]

RECURSIVE match_children(_, _, _)

\* A matches that accepts a branch node only if its children match too.
yanode_matches_deep(self, node, path) ==
    IF node.tag \notin self.tag THEN Unmatched(path)
    ELSE IF match_children(self, node, path).exc # NoError THEN Unmatched(path)
    ELSE Matched(self)

\* yanode.matches
yanode_matches(self, node, path) ==
    IF node.tag \in self.tag THEN Matched(self) ELSE Unmatched(path)

\* yascalar.matches
yascalar_matches(self, node, path) ==
    IF yanode_matches(self, node, path).exc # NoError
    THEN yanode_matches(self, node, path)
    ELSE IF self.value = NoRegex \/ fullmatch(self.value, node.value)
    THEN Matched(self)
    ELSE Unmatched(path)

RECURSIVE matches(_, _, _)

\* An alternation that consults every candidate and returns the match of
\* the last one that accepts the node.
RECURSIVE yaoneof_matches_last(_, _, _, _)
yaoneof_matches_last(self, node, path, i) ==
    IF i > Len(self.entries)
    THEN [Unmatched(path) EXCEPT !.consulted = Len(self.entries)]
    ELSE LET rest == yaoneof_matches_last(self, node, path, i + 1)
         IN  IF rest.exc = NoError THEN rest
             ELSE [matches(self.entries[i], node, path)
                      EXCEPT !.consulted = Len(self.entries)]

\* yaoneof.matches, from candidate i on: NoMatchingType of a candidate is
\* suppressed and the next candidate tried.
RECURSIVE yaoneof_matches(_, _, _, _)
yaoneof_matches(self, node, path, i) ==
    IF i > Len(self.entries)
    THEN [Unmatched(path) EXCEPT !.consulted = i - 1]
    ELSE IF matches(self.entries[i], node, path).exc.kind = "NoMatchingType"
    THEN yaoneof_matches(self, node, path, i + 1)
    ELSE [matches(self.entries[i], node, path) EXCEPT !.consulted = i]

\* schema.matches(node), by the class of schema.
matches(self, node, path) ==
    CASE self.cls = "yaoneof" -> yaoneof_matches(self, node, path, 1)
      [] self.cls = "yaexpand" -> matches(self.value_schema, node, path)
      [] self.cls \in ScalarClasses -> yascalar_matches(self, node, path)
      [] OTHER -> yanode_matches(self, node, path)

\* The result of yaentry.match_item: None or (key, schema, type).
NoItem == [isNone |-> TRUE, key |-> <<>>, schema |-> [cls |-> "None"], type |-> None]
Item(key, sch, type) == [isNone |-> FALSE, key |-> key, schema |-> sch, type |-> type]

\* yaentry.match_item, from key pattern i on.
RECURSIVE match_item(_, _, _, _, _)
match_item(self, key, value, path, i) ==
    IF i > Len(self.keys) THEN NoItem
    ELSE IF ~fullmatch(self.keys[i][1], key)
    THEN match_item(self, key, value, path, i + 1)
    ELSE IF matches(self.keys[i][2], value, path).exc.kind = "NoMatchingType"
    THEN match_item(self, key, value, path, i + 1)
    ELSE Item(key, matches(self.keys[i][2], value, path).obj, self.keys[i][3])

\* yaentry.keys_repr, as the patterns it joins.
keys_repr(self) == [i \in 1..Len(self.keys) |-> self.keys[i][1].pattern]

\* The last item of iterable for which pred is true.
zip_last(pred, iterable) ==
    LET hits == {i \in 1..Len(iterable) : ~pred[i].isNone}
    IN  IF hits = {} THEN [first |-> [cls |-> "None"], second |-> NoItem]
        ELSE LET i == CHOOSE h \in hits : \A g \in hits : h >= g
             IN  [first |-> iterable[i], second |-> pred[i]]

\* util.zip_first: the first item of iterable for which pred is true, with
\* the value of pred; (None, None) when there is none.  pred is given as
\* the sequence of its values on the items (it has no side effect).
zip_first(pred, iterable) ==
    LET hits == {i \in 1..Len(iterable) : ~pred[i].isNone}
    IN  IF hits = {} THEN [first |-> [cls |-> "None"], second |-> NoItem]
        ELSE LET i == CHOOSE h \in hits : \A g \in hits : h <= g
             IN  [first |-> iterable[i], second |-> pred[i]]

\* What a match_children generator did: the (node, schema) tuples it
\* yielded, in order, and the exception that ended it, if one did.  For a
\* leaf match_children returns None.
Children(yielded, exc) == [isNone |-> FALSE, yielded |-> yielded, exc |-> exc]
NoChildren == [isNone |-> TRUE, yielded |-> <<>>, exc |-> NoError]
\* entry is the yaentry yamap.match_children counted before it yielded the
\* child, None for the children of other schemas.
Child(node, path, sch) ==
    [node |-> node, path |-> path, schema |-> sch, entry |-> [cls |-> "None"]]

\* A list with the position of each element in it.
enumerate(s) == [i \in 1..Len(s) |-> [i |-> i, x |-> s[i]]]

\* The checks without the one for required entries.
RECURSIVE yamap_check_counts_no_required(_, _, _, _)
yamap_check_counts_no_required(self, counts, path, i) ==
    IF i > Len(self.entries) THEN NoError
    ELSE IF ~self.entries[i].repeat /\ CopiesIn(self.entries[i], counts) > 1
    THEN MappingError("Maximum one of {} allowed", keys_repr(self.entries[i]), path)
    ELSE yamap_check_counts_no_required(self, counts, path, i + 1)

\* The checks without the one for entries that do not repeat.
RECURSIVE yamap_check_counts_no_maximum(_, _, _, _)
yamap_check_counts_no_maximum(self, counts, path, i) ==
    IF i > Len(self.entries) THEN NoError
    ELSE IF self.entries[i].required /\ CopiesIn(self.entries[i], counts) = 0
    THEN MappingError("Required key {} missing", keys_repr(self.entries[i]), path)
    ELSE yamap_check_counts_no_maximum(self, counts, path, i + 1)

\* No checks.
yamap_check_counts_none(self, counts, path, i) == NoError

\* The checks of yamap.match_children after its loop, from entry i on: the
\* exception of the first entry that fails one.
RECURSIVE yamap_check_counts(_, _, _, _)
yamap_check_counts(self, counts, path, i) ==
    IF i > Len(self.entries) THEN NoError
    ELSE IF self.entries[i].required /\ CopiesIn(self.entries[i], counts) = 0
    THEN MappingError("Required key {} missing", keys_repr(self.entries[i]), path)
    ELSE IF ~self.entries[i].repeat /\ CopiesIn(self.entries[i], counts) > 1
    THEN MappingError("Maximum one of {} allowed", keys_repr(self.entries[i]), path)
    ELSE yamap_check_counts(self, counts, path, i + 1)

\* The loop of yamap.match_children from position k of the pairs it
\* iterates over; counts is the defaultdict of the hits of each entry.
RECURSIVE yamap_scan(_, _, _, _, _, _)
yamap_scan(self, pairs, path, k, counts, yielded) ==
    IF k > Len(pairs)
    THEN Children(yielded, yamap_check_counts(self, counts, path, 1))
    ELSE LET key_node == pairs[k].x[1]
             value == pairs[k].x[2]
             vpath == Append(path, pairs[k].i)
             pred == [e \in 1..Len(self.entries) |->
                         match_item(self.entries[e], key_node.value, value,
                                    vpath, 1)]
             found == zip_first(pred, self.entries)
         IN  IF key_node.tag # "str"
             THEN Children(yielded,
                      MappingError("Only plain strings supported as mapping keys",
                                   <<>>, KeyPath(path, pairs[k].i)))
             ELSE IF found.first.cls = "None"
             THEN Children(yielded, NoMatchingType(KeyPath(path, pairs[k].i)))
             ELSE yamap_scan(self, pairs, path, k + 1,
                             counts (+) SetToBag({found.first}),
                             Append(yielded,
                                    [Child(value, vpath,
                                           yaexpand_init(found.second.key,
                                                         found.second.schema,
                                                         found.second.type))
                                        EXCEPT !.entry = found.first]))

yamap_match_children(self, node, path) ==
    yamap_scan(self, reversed(enumerate(node.pairs)), path, 1, EmptyBag, <<>>)

\* The loop of yaseq.match_children from position k of the items.
RECURSIVE yaseq_scan(_, _, _, _, _)
yaseq_scan(self, items, path, k, yielded) ==
    IF k > Len(items) THEN Children(yielded, NoError)
    ELSE LET m == matches(self.schema, items[k].x, Append(path, items[k].i))
         IN  IF m.exc # NoError THEN Children(yielded, m.exc)
             ELSE yaseq_scan(self, items, path, k + 1,
                             Append(yielded,
                                    Child(items[k].x, Append(path, items[k].i), m.obj)))

yaseq_match_children(self, node, path) ==
    yaseq_scan(self, reversed(enumerate(node.items)), path, 1, <<>>)

\* yaexpand.match_children
yaexpand_match_children(self, node, path) ==
    LET m == matches(self.value_schema, node, path)
    IN  IF m.exc # NoError THEN Children(<<>>, m.exc)
        ELSE Children(<<Child(node, path, m.obj)>>, NoError)

\* schema.match_children(node), by the class of schema.
match_children(self, node, path) ==
    CASE self.cls = "yamap" -> yamap_match_children(self, node, path)
      [] self.cls = "yaseq" -> yaseq_match_children(self, node, path)
      [] self.cls = "yaexpand" -> yaexpand_match_children(self, node, path)
      [] OTHER -> NoChildren

\* schema.construct_leaf(constructor, node), by the class of schema.
construct_leaf(self, node) ==
    CASE self.cls \in ScalarClasses -> Returned(as_scalar(node))
      [] self.cls = "yaexpand" -> Raised(Exc("NotImplementedError", "", NoPath, <<>>))
      [] OTHER -> Raised(TypeError)

\* schema.resolve(value), by the class of schema: yaexpand.resolve calls
\* its type with the key and value[0], yanode.resolve its type with value.
resolve(self, value) ==
    IF self.cls = "yaexpand"
    THEN Call(self.type.fn, <<PyStr(self.key), value.items[1]>>, <<>>)
    ELSE IF self.type = None THEN Returned(value)
    ELSE CallType(self.type, value)

----------------------------------------------------------------------------
\* Schema expressions: the constructor and builder calls a program writes
\* to make its schema.  op is the class constructed ("class": the bare
\* class is passed on), calls the builder methods chained onto it.

Expr(op, cls, type, sq, un, value, calls) ==
    [op |-> op, cls |-> cls, type |-> type, squash |-> sq, unpack |-> un,
     value |-> value, calls |-> calls]
MethodExpr(method, regex, sch, type) ==
    [method |-> method, regex |-> regex, schema |-> sch, type |-> type]

E_class(name) == Expr("class", name, MISSING, FALSE, FALSE, MissingValue, <<>>)
E_scalar(cls, type, value) == Expr("yascalar", cls, type, FALSE, FALSE, value, <<>>)
E_map(type, sq, un, calls) == Expr("yamap", "yamap", type, sq, un, MissingValue, calls)
E_seq(type, un, calls) == Expr("yaseq", "yaseq", type, FALSE, un, MissingValue, calls)
Rule(method, regex, sch) == MethodExpr(method, regex, sch, Callable("pair"))
RuleT(method, regex, sch, type) == MethodExpr(method, regex, sch, type)
Case(sch) == MethodExpr("case", <<>>, sch, None)

\* yaentry(required=..., repeat=...).case(...)...; yamap.entry(entry).
E_entry(required, repeat, calls) ==
    [op |-> "yaentry", cls |-> "yaentry", required |-> required,
     repeat |-> repeat, calls |-> calls]

\* receiver.method(...) on the heap h.
MethodCall(h, self, method, regex, sch, type) ==
    CASE method = "zero_or_one" -> yamap_zero_or_one(h, self, regex, sch, type)
      [] method = "exactly_one" -> yamap_exactly_one(h, self, regex, sch, type)
      [] method = "zero_or_more" -> yamap_zero_or_more(h, self, regex, sch, type)
      [] method = "one_or_more" -> yamap_one_or_more(h, self, regex, sch, type)
      [] method = "entry" -> yamap_entry(h, self, sch)
      [] method = "entry.case" -> yaentry_case(h, self, regex, sch, type)
      [] method = "oneof.case" -> yaoneof_case(h, self, sch)
      [] OTHER -> yaseq_case(h, self, sch)

\* Evaluating a schema expression: the first exception ends it.
RECURSIVE Build(_)
RECURSIVE BuildCalls(_, _, _)
BuildCalls(self, calls, i) ==
    IF i > Len(calls) THEN Built(self)
    ELSE IF Build(calls[i].schema).exc # NoError THEN Build(calls[i].schema)
    ELSE BuildCalls(Deref(MethodCall(<<self>>, 1, calls[i].method, calls[i].regex,
                                     Build(calls[i].schema).obj, calls[i].type)),
                    calls, i + 1)

Build(e) ==
    CASE e.op = "class" -> Built(Class(e.cls))
      [] e.op = "yascalar" -> yascalar_init(e.cls, MissingTag, e.type, e.value)
      [] e.op = "yaentry" -> BuildCalls(yaentry_init(e.required, e.repeat), e.calls, 1)
      [] e.op = "yamap" ->
           IF yamap_init(MissingTag, e.type, e.squash, e.unpack).exc # NoError
           THEN yamap_init(MissingTag, e.type, e.squash, e.unpack)
           ELSE BuildCalls(yamap_init(MissingTag, e.type, e.squash, e.unpack).obj,
                           e.calls, 1)
      [] OTHER ->
           IF yaseq_init(MissingTag, e.type, e.unpack).exc # NoError
           THEN yaseq_init(MissingTag, e.type, e.unpack)
           ELSE BuildCalls(yaseq_init(MissingTag, e.type, e.unpack).obj, e.calls, 1)

----------------------------------------------------------------------------
\* The programs and documents the model runs.

\* All sequences over S of length at most n.
RECURSIVE SeqsUpTo(_, _)
SeqsUpTo(S, n) ==
    IF n = 0 THEN {<<>>}
    ELSE SeqsUpTo(S, n - 1) \cup
         {Append(q, x) : q \in {r \in SeqsUpTo(S, n - 1) : Len(r) = n - 1}, x \in S}

StrNode(s) == ScalarNode("str", s)
IntNode(s) == ScalarNode("int", s)

\* Mapping schemas yamap() with up to MaxRules entry rules, against flat
\* mappings of up to MaxPairs pairs.
Rules ==
    {Rule("exactly_one", <<"a", "\\d">>, E_class("yastr")),
     Rule("zero_or_one", <<"a", "\\d">>, E_class("yastr")),
     Rule("zero_or_more", <<".+">>, E_class("yascalar")),
     Rule("one_or_more", <<"a", "\\d">>, E_class("yaint")),
     Rule("one_or_more", <<"b">>, E_class("yastr"))}
RuleProgs == {E_map(MISSING, FALSE, FALSE, calls) : calls \in SeqsUpTo(Rules, MaxRules)}

Pairs ==
    {<<StrNode(<<"a", "1">>), StrNode(<<"x">>)>>,
     <<StrNode(<<"a", "2">>), StrNode(<<"x">>)>>,
     <<StrNode(<<"a", "2">>), IntNode(<<"1">>)>>,
     <<StrNode(<<"b">>), StrNode(<<"x">>)>>,
     <<IntNode(<<"1">>), StrNode(<<"x">>)>>}
MapDocs == {MappingNode(pairs) : pairs \in SeqsUpTo(Pairs, MaxPairs)}

\* Mappings whose first rule is a yaentry with two patterns: the value
\* schema of the first pattern rejects what that of the second accepts,
\* and the pattern a matches a prefix of the keys a1 and a2 only.
EntryCases ==
    {<<MethodExpr("entry.case", <<"a">>, E_class("yastr"), Callable("pair")),
       MethodExpr("entry.case", <<"a", "\\d">>, E_class("yaint"), Callable("entry"))>>,
     <<MethodExpr("entry.case", <<"a", "\\d">>, E_class("yastr"), Callable("pair")),
       MethodExpr("entry.case", <<"a", "\\d">>, E_class("yaint"), Callable("entry"))>>}
EntryProgs ==
    {E_map(Callable("list"), FALSE, FALSE,
           <<MethodExpr("entry", <<>>, E_entry(FALSE, TRUE, cases), None)>> \o rest) :
        cases \in EntryCases,
        rest \in {<<>>, <<Rule("zero_or_more", <<".+">>, E_class("yascalar"))>>}}

\* Schemas with two branch candidates for the same mapping node, in both
\* orders: one that takes only a required key a<digit>, one that takes any
\* keys; as the candidates of a sequence, and as the value schemas of two
\* rules of a mapping.
CommitProgs ==
    LET strict == E_map(MISSING, FALSE, FALSE,
                        <<Rule("exactly_one", <<"a", "\\d">>, E_class("yastr"))>>)
        lax == E_map(MISSING, FALSE, FALSE,
                     <<Rule("zero_or_more", <<".+">>, E_class("yascalar"))>>)
    IN  {E_seq(MISSING, FALSE, <<Case(c[1]), Case(c[2])>>) :
            c \in {<<strict, lax>>, <<lax, strict>>}}
        \cup {E_map(MISSING, FALSE, FALSE,
                    <<Rule("zero_or_more", <<".+">>, c[1]),
                      Rule("zero_or_more", <<".+">>, c[2])>>) :
                 c \in {<<strict, lax>>, <<lax, strict>>}}

\* Sequences of mappings, and mappings of mappings, for these schemas.
CommitDocs ==
    LET inner == {MappingNode(<<>>),
                  MappingNode(<<<<StrNode(<<"a", "1">>), StrNode(<<"x">>)>>>>),
                  MappingNode(<<<<StrNode(<<"b">>), StrNode(<<"x">>)>>>>)}
    IN  {SequenceNode(items) : items \in SeqsUpTo(inner, MaxItems)}
        \cup {MappingNode(pairs) :
                 pairs \in SeqsUpTo({<<StrNode(<<"a", "1">>), v>> : v \in inner},
                                    MaxPairs)}

\* Mapping constructors with every combination of type, squash and unpack.
MapTypes == {MISSING, None, Callable("list"), Callable("entry")}
CtorRules ==
    {<<>>,
     <<Rule("exactly_one", <<"a", "\\d">>, E_class("yastr"))>>,
     <<Rule("zero_or_more", <<".+">>, E_class("yascalar"))>>,
     <<RuleT("exactly_one", <<"a", "\\d">>, E_class("yastr"), Callable("entry"))>>}
CtorProgs ==
    {E_map(t, sq, un, calls) :
        t \in MapTypes, sq \in BOOLEAN, un \in BOOLEAN, calls \in CtorRules}

\* Sequence schemas with up to MaxCands candidates, against sequences of up
\* to MaxItems items.
Cands ==
    {Case(E_class("yastr")), Case(E_class("yascalar")),
     Case(E_scalar("yastr", Callable("entry"), MissingValue)),
     Case(E_class("yamap"))}
SeqTypes == {MISSING, None, Callable("entry")}
SeqProgs ==
    {E_seq(t, un, calls) :
        t \in SeqTypes, un \in BOOLEAN, calls \in SeqsUpTo(Cands, MaxCands)}
Items == {StrNode(<<"x">>), IntNode(<<"1">>), MappingNode(<<>>)}
SeqDocs == {SequenceNode(items) : items \in SeqsUpTo(Items, MaxItems)}

\* examples/pipeline.py
pipeline_schema ==
    E_seq(Callable("pipeline"), FALSE,
          <<Case(E_scalar("yastr", Callable("entry"), MissingValue)),
            Case(E_map(Callable("entry"), TRUE, TRUE,
                       <<Rule("exactly_one", <<".+">>,
                              E_seq(MISSING, FALSE, <<Case(E_class("yascalar"))>>))>>))>>)
pipeline_yaml ==
    SequenceNode(
        <<StrNode(<<"upper">>),
          MappingNode(<<<<StrNode(<<"replace">>),
                          SequenceNode(<<StrNode(<<"FRIEND">>), StrNode(<<"MATE">>)>>)>>>>),
          MappingNode(<<<<StrNode(<<"replace">>),
                          SequenceNode(<<StrNode(<<"HELLO">>), StrNode(<<"HEY">>)>>)>>>>)>>)

\* examples/squashdict.py
squashdict_schema ==
    E_seq(MISSING, FALSE,
          <<Case(E_map(Callable("entry"), TRUE, TRUE,
                       <<Rule("exactly_one", <<"item", "\\d">>,
                              E_map(MISSING, FALSE, FALSE,
                                    <<Rule("zero_or_more", <<".+">>,
                                           E_class("yastr"))>>))>>))>>)
squashdict_yaml ==
    SequenceNode(
        <<MappingNode(<<<<StrNode(<<"item", "1">>),
                          MappingNode(<<<<StrNode(<<"a">>), StrNode(<<"A">>)>>,
                                        <<StrNode(<<"b">>), StrNode(<<"B">>)>>>>)>>>>),
          MappingNode(<<<<StrNode(<<"item", "2">>),
                          MappingNode(<<<<StrNode(<<"c">>), StrNode(<<"C">>)>>,
                                        <<StrNode(<<"d">>), StrNode(<<"D">>)>>>>)>>>>)>>)

\* examples/entrytype.py
entrytype_schema ==
    E_map(Callable("list"), FALSE, FALSE,
          <<RuleT("zero_or_more", <<"item", "\\d">>,
                  E_map(MISSING, FALSE, FALSE,
                        <<Rule("zero_or_more", <<".+">>, E_class("yastr"))>>),
                  Callable("entry"))>>)
entrytype_yaml ==
    MappingNode(
        <<<<StrNode(<<"item", "1">>),
            MappingNode(<<<<StrNode(<<"a">>), StrNode(<<"A">>)>>,
                          <<StrNode(<<"b">>), StrNode(<<"B">>)>>>>)>>,
          <<StrNode(<<"item", "2">>),
            MappingNode(<<<<StrNode(<<"c">>), StrNode(<<"C">>)>>,
                          <<StrNode(<<"d">>), StrNode(<<"D">>)>>>>)>>>>)

\* examples/simple.py
simple_schema ==
    E_map(MISSING, FALSE, FALSE,
          <<Rule("exactly_one", <<"command">>, E_class("yastr")),
            Rule("zero_or_one", <<"arguments">>,
                 E_seq(MISSING, FALSE, <<Case(E_class("yastr"))>>)),
            Rule("zero_or_one", <<"env">>,
                 E_map(MISSING, FALSE, FALSE,
                       <<Rule("zero_or_more", <<"[A-Z]+">>, E_class("yastr"))>>)),
            Rule("zero_or_one", <<"capture">>, E_class("yabool")),
            Rule("zero_or_one", <<"timeout">>, E_class("yanumber"))>>)
simple_yaml ==
    MappingNode(
        <<<<StrNode(<<"command">>), StrNode(<<"/usr/bin/echo">>)>>,
          <<StrNode(<<"arguments">>),
            SequenceNode(<<StrNode(<<"Hello">>), StrNode(<<"world,">>), StrNode(<<"${NAME}">>)>>)>>,
          <<StrNode(<<"env">>),
            MappingNode(<<<<StrNode(<<"N", "A", "M", "E">>), StrNode(<<"Bob">>)>>>>)>>,
          <<StrNode(<<"capture">>), ScalarNode("bool", <<"true">>)>>,
          <<StrNode(<<"timeout">>), ScalarNode("float", <<"5.5">>)>>>>)

\* examples/unpack.py
unpack_schema ==
    E_seq(Callable("pair"), TRUE,
          <<Case(E_map(Callable("entry"), FALSE, TRUE,
                       <<Rule("exactly_one", <<"a">>, E_class("yastr")),
                         Rule("zero_or_one", <<"b">>, E_class("yastr"))>>))>>)
unpack_yaml ==
    SequenceNode(
        <<MappingNode(<<<<StrNode(<<"a">>), StrNode(<<"A1">>)>>,
                        <<StrNode(<<"b">>), StrNode(<<"B1">>)>>>>),
          MappingNode(<<<<StrNode(<<"a">>), StrNode(<<"A2">>)>>>>)>>)

Examples ==
    {<<pipeline_schema, pipeline_yaml>>, <<squashdict_schema, squashdict_yaml>>,
     <<entrytype_schema, entrytype_yaml>>, <<simple_schema, simple_yaml>>,
     <<unpack_schema, unpack_yaml>>}

----------------------------------------------------------------------------
\* The program: schema = <expression>; schema.load(yaml).

NoSchema == [cls |-> "None"]
NoCall == [method |-> "none", self |-> 0, ref |-> 0]

\* A stackitem that starts out visited.
stackitem_visited(node, path, sch, parent) ==
    [node |-> node, path |-> path, schema |-> sch, parent |-> parent,
     children |-> <<>>, branch_visited |-> TRUE]

\* mapper.stackitem; parent is the position of the parent on the stack, 0
\* for None.
stackitem(node, path, sch, parent) ==
    [node |-> node, path |-> path, schema |-> sch, parent |-> parent,
     children |-> <<>>, branch_visited |-> FALSE]

\* The history of a load: schema.matches(node) returned for the node at
\* path ("matches"), the loop took the stackitem as top ("inspect"), called
\* its schema's match_children ("match_children"), appended it to the stack
\* ("push") or popped it ("pop").  A stackitem is known by the path of its
\* node and by whether its schema is a yaexpand, which shares its node with
\* the stackitem of the value.
\* yamap.match_children added one to counts[entry] for the pair with the
\* value at path ("count").
Event(ev, path, expand) ==
    [ev |-> ev, path |-> path, expand |-> expand, entry |-> [cls |-> "None"]]

IsExpand(sch) == sch.cls = "yaexpand"

\* The events of a generator that yields its children unmatched.
ChildEventsUnmatched(yielded) ==
    [k \in 1..Len(yielded) |->
        Event("push", yielded[k].path, IsExpand(yielded[k].schema))]

\* The events of iterating a generator of match_children: each child is
\* matched, counted for its entry by a yamap, yielded, and pushed by the
\* loop before the next one is matched.
RECURSIVE ChildEvents(_)
ChildEvents(yielded) ==
    IF yielded = <<>> THEN <<>>
    ELSE LET child == Head(yielded)
         IN  <<Event("matches", child.path, FALSE)>>
             \o (IF child.entry.cls = "None" THEN <<>>
                 ELSE <<[Event("count", child.path, FALSE)
                            EXCEPT !.entry = child.entry]>>)
             \o <<Event("push", child.path, IsExpand(child.schema))>>
             \o ChildEvents(Tail(yielded))

\* The event ev of the stackitem on top of the stack.
TopEvent(ev) ==
    <<Event(ev, stack[Len(stack)].path, IsExpand(stack[Len(stack)].schema))>>

Init ==
    /\ \/ prog \in RuleProgs /\ doc \in MapDocs
       \/ prog \in EntryProgs /\ doc \in MapDocs
       \/ prog \in CommitProgs /\ doc \in CommitDocs
       \/ prog \in CtorProgs /\ doc \in MapDocs
       \/ prog \in SeqProgs /\ doc \in SeqDocs
       \/ \E ex \in Examples : prog = ex[1] /\ doc = ex[2]
    /\ schema = NoSchema
    /\ stack = <<>>
    /\ done = <<>>
    /\ pc = "construct"
    /\ result = PyNone
    /\ error = NoError
    /\ heap = <<>>
    /\ lastcall = NoCall
    /\ loads = <<>>
    /\ log = <<>>
    /\ steps = 0

\* The schema expression is evaluated.
Construct ==
    /\ pc = "construct"
    /\ IF Build(prog).exc # NoError
       THEN /\ pc' = "raised"
            /\ error' = Build(prog).exc
            /\ UNCHANGED schema
       ELSE /\ pc' = "load"
            /\ schema' = Build(prog).obj
            /\ UNCHANGED error
    /\ steps' = steps + 1
    /\ UNCHANGED <<prog, doc, stack, done, result, heap, lastcall, loads, log>>

\* load_and_map up to its loop: the root node is matched and pushed.
Load ==
    /\ pc = "load"
    /\ IF matches(schema, doc, <<>>).exc # NoError
       THEN /\ pc' = "raised"
            /\ error' = matches(schema, doc, <<>>).exc
            /\ UNCHANGED <<stack, log>>
       ELSE /\ pc' = "loop"
            /\ stack' = <<stackitem(doc, <<>>, matches(schema, doc, <<>>).obj, 0)>>
            /\ log' = <<Event("matches", <<>>, FALSE),
                        Event("push", <<>>, FALSE)>>
            /\ UNCHANGED error
    /\ steps' = steps + 1
    /\ UNCHANGED <<prog, doc, schema, done, result, heap, lastcall, loads>>

top == stack[Len(stack)]

\* Stackitems of the children without their parent.
PushedOrphans(yielded, parent) ==
    [i \in 1..Len(yielded) |->
        stackitem(yielded[i].node, yielded[i].path, yielded[i].schema, 0)]

\* The stackitems of the children a generator yielded, pushed in order.
Pushed(yielded, parent) ==
    [i \in 1..Len(yielded) |->
        stackitem(yielded[i].node, yielded[i].path, yielded[i].schema, parent)]

\* One iteration on a branch not visited yet: its children are matched and
\* pushed; an exception of match_children ends load.
Visit ==
    /\ pc = "loop"
    /\ stack # <<>>
    /\ ~top.branch_visited
    /\ ~match_children(top.schema, top.node, top.path).isNone
    /\ LET children == match_children(top.schema, top.node, top.path)
       IN  /\ IF children.exc # NoError
              THEN /\ pc' = "raised"
                   /\ error' = children.exc
                   /\ stack' = stack \o Pushed(children.yielded, Len(stack))
              ELSE /\ stack' = [stack EXCEPT ![Len(stack)].branch_visited = TRUE]
                                  \o Pushed(children.yielded, Len(stack))
                   /\ UNCHANGED <<pc, error>>
           /\ log' = log \o TopEvent("inspect") \o TopEvent("match_children")
                         \o ChildEvents(children.yielded)
    /\ steps' = steps + 1
    /\ UNCHANGED <<prog, doc, schema, done, result, heap, lastcall, loads>>

\* The rest of an iteration, after stack.pop(): the value is resolved and
\* appended to the children of the parent, or returned.
Finish(value) ==
    LET resolved == resolve(top.schema, value)
        rest == SubSeq(stack, 1, Len(stack) - 1)
    IN  IF resolved.exc # NoError
        THEN /\ pc' = "raised"
             /\ error' = resolved.exc
             /\ stack' = rest
             /\ UNCHANGED <<done, result>>
        ELSE /\ done' = Append(done, [path |-> top.path, schema |-> top.schema,
                                      value |-> value, resolved |-> resolved.val])
             /\ UNCHANGED error
             /\ IF top.parent # 0
                THEN /\ stack' = [rest EXCEPT ![top.parent].children =
                                                 Append(@, resolved.val)]
                     /\ UNCHANGED <<pc, result>>
                ELSE /\ stack' = rest
                     /\ pc' = "returned"
                     /\ result' = resolved.val

\* One iteration on a leaf: it is popped and constructed.
PopLeaf ==
    /\ pc = "loop"
    /\ stack # <<>>
    /\ ~top.branch_visited
    /\ match_children(top.schema, top.node, top.path).isNone
    /\ LET leaf == construct_leaf(matches(top.schema, top.node, top.path).obj, top.node)
       IN  IF leaf.exc # NoError
           THEN /\ pc' = "raised"
                /\ error' = leaf.exc
                /\ stack' = SubSeq(stack, 1, Len(stack) - 1)
                /\ UNCHANGED <<done, result>>
           ELSE Finish(leaf.val)
    /\ log' = log \o TopEvent("inspect") \o TopEvent("match_children")
                  \o TopEvent("pop")
                  \o <<Event("matches", top.path, FALSE)>>
    /\ steps' = steps + 1
    /\ UNCHANGED <<prog, doc, schema, heap, lastcall, loads>>

\* One iteration on a branch visited before: it is popped and resolved from
\* the values of its children.
PopBranch ==
    /\ pc = "loop"
    /\ stack # <<>>
    /\ top.branch_visited
    /\ Finish(PyList(top.children))
    /\ log' = log \o TopEvent("inspect") \o TopEvent("pop")
    /\ steps' = steps + 1
    /\ UNCHANGED <<prog, doc, schema, heap, lastcall, loads>>

Next == Construct \/ Load \/ Visit \/ PopLeaf \/ PopBranch

Spec == Init /\ [][Next]_vars

----------------------------------------------------------------------------
\* A program that builds schemas interactively: it constructs schema
\* objects, calls builder methods on the objects it holds, and loads
\* documents with them, in any order.  heap holds the objects the program
\* has a reference to.

NoProg == Expr("none", "none", MISSING, FALSE, FALSE, MissingValue, <<>>)

\* The constructor calls of the program: yamap(), yaseq(), yaoneof(),
\* yaentry(required=True).
Constructors == {"yamap", "yaseq", "yaoneof", "yaentry"}
Constructed(cls) ==
    CASE cls = "yamap" -> yamap_init(MissingTag, MISSING, FALSE, FALSE).obj
      [] cls = "yaseq" -> yaseq_init(MissingTag, MISSING, FALSE).obj
      [] cls = "yaoneof" -> yaoneof_init(<<>>)
      [] OTHER -> yaentry_init(TRUE, FALSE)

\* The (pattern, schema) arguments of the builder calls of the program.
BuilderArgs == {<<<<"a", "\\d">>, Class("yastr")>>}

\* The builder methods of each class.
Builders(cls) ==
    CASE cls = "yamap" -> {"entry", "map.case", "zero_or_one", "exactly_one",
                           "zero_or_more", "one_or_more"}
      [] cls = "yaseq" -> {"seq.case"}
      [] cls = "yaoneof" -> {"oneof.case"}
      [] cls = "yaentry" -> {"entry.case"}

\* The documents the program loads.
BuildDocs ==
    {MappingNode(<<<<StrNode(<<"a", "1">>), StrNode(<<"x">>)>>>>),
     SequenceNode(<<StrNode(<<"x">>)>>)}

InitBuild ==
    /\ prog = NoProg
    /\ doc = MappingNode(<<>>)
    /\ schema = NoSchema
    /\ stack = <<>>
    /\ done = <<>>
    /\ pc = "build"
    /\ result = PyNone
    /\ error = NoError
    /\ heap = <<>>
    /\ lastcall = NoCall
    /\ loads = <<>>
    /\ log = <<>>
    /\ steps = 0

\* obj = cls()
New ==
    /\ pc = "build"
    /\ Len(heap) < MaxObjs
    /\ \E cls \in Constructors :
          /\ heap' = Append(heap, Constructed(cls))
          /\ lastcall' = [method |-> cls, self |-> 0, ref |-> Len(heap) + 1]
    /\ UNCHANGED <<prog, doc, schema, stack, done, pc, result, error, loads, log,
                   steps>>

\* The heap a builder call leaves to the program: the objects it held
\* before, and the object returned when that is a new one; the temporaries
\* of the call are dropped.
Kept(r) ==
    IF r.ref <= Len(heap) THEN SubSeq(r.heap, 1, Len(heap))
    ELSE Append(SubSeq(r.heap, 1, Len(heap)), r.heap[r.ref])

\* obj = heap[self].method(...), for every builder method of the class of
\* the receiver; the entry argument of yamap.entry is a yaentry the
\* program holds.
CallBuilder ==
    /\ pc = "build"
    /\ Len(heap) < MaxObjs
    /\ \E self \in 1..Len(heap), a \in BuilderArgs, e \in 1..Len(heap),
          repeat \in BOOLEAN :
          \E method \in Builders(heap[self].cls) :
             /\ method = "entry" => heap[e].cls = "yaentry"
             /\ method # "entry" => e = 1
             /\ method # "map.case" => repeat
             /\ LET r == CASE method = "entry" ->
                                yamap_entry(heap, self, heap[e])
                           [] method = "map.case" ->
                                yamap_case(heap, self, a[1], a[2],
                                           Callable("pair"), repeat, ~repeat)
                           [] method = "seq.case" ->
                                yaseq_case(heap, self, a[2])
                           [] OTHER ->
                                MethodCall(heap, self, method, a[1], a[2],
                                           Callable("pair"))
                IN  /\ heap' = Kept(r)
                    /\ lastcall' = [method |-> method, self |-> self,
                                    ref |-> IF r.ref <= Len(heap) THEN r.ref
                                            ELSE Len(heap) + 1]
    /\ UNCHANGED <<prog, doc, schema, stack, done, pc, result, error, loads, log,
                   steps>>

\* heap[ref].load(d) is called: the program loads a document with a schema
\* it holds and, any number of times later on, the same document with the
\* same schema again.  loads keeps the first load and the latest one; objs
\* is the number of objects the program held when it called the first.
StartLoad ==
    /\ pc = "build"
    /\ \E ref \in 1..Len(heap), d \in BuildDocs :
          /\ heap[ref].cls \in {"yamap", "yaseq"}
          /\ loads # <<>> => ref = loads[1].ref /\ d = loads[1].doc
          /\ schema' = heap[ref]
          /\ doc' = d
          /\ loads' = Append(IF loads = <<>> THEN <<>> ELSE <<loads[1]>>,
                             [ref |-> ref, doc |-> d,
                              objs |-> IF loads = <<>> THEN Len(heap)
                                       ELSE loads[1].objs,
                              finished |-> FALSE, pc |-> "load",
                              result |-> PyNone, error |-> NoError])
    /\ pc' = "load"
    /\ stack' = <<>>
    /\ done' = <<>>
    /\ result' = PyNone
    /\ error' = NoError
    /\ log' = <<>>
    /\ steps' = 0
    /\ UNCHANGED <<prog, heap, lastcall>>

\* load returned or raised, and the program goes on.
EndLoad ==
    /\ pc \in {"returned", "raised"}
    /\ loads # <<>>
    /\ loads' = [loads EXCEPT ![Len(loads)] =
                    [@ EXCEPT !.finished = TRUE, !.pc = pc,
                              !.result = result, !.error = error]]
    /\ pc' = "build"
    /\ UNCHANGED <<prog, doc, schema, stack, done, result, error, heap, lastcall,
                   log, steps>>

NextBuild ==
    New \/ CallBuilder \/ StartLoad \/ Load \/ Visit \/ PopLeaf \/ PopBranch
        \/ EndLoad

SpecBuild == InitBuild /\ [][NextBuild]_vars

----------------------------------------------------------------------------
\* Properties.  The definitions below say what the document and the schema
\* are to each other; they take no part in the run of the program.

\* The node at a path of the document.
RECURSIVE NodeAt(_, _)
NodeAt(node, path) ==
    IF path = <<>> THEN node
    ELSE IF Head(path) = 0 THEN node
    ELSE IF node.tag = "map"
    THEN IF Len(path) >= 2 /\ path[2] = 0 THEN node.pairs[Head(path)][1]
         ELSE NodeAt(node.pairs[Head(path)][2], Tail(path))
    ELSE NodeAt(node.items[Head(path)], Tail(path))

IsStrictPrefix(p, q) == Len(p) < Len(q) /\ SubSeq(q, 1, Len(p)) = p

\* An entry rule has a pattern that fully matches the key of a pair.
KeyMatches(rule, pr) ==
    \E n \in 1..Len(rule.keys) : fullmatch(rule.keys[n][1], pr[1].value)

\* An entry rule accepts a pair: one of its patterns fully matches the key
\* and the schema that goes with the pattern matches the value.
Accepts(rule, pr) ==
    \E n \in 1..Len(rule.keys) :
        /\ fullmatch(rule.keys[n][1], pr[1].value)
        /\ matches(rule.keys[n][2], pr[2], <<>>).exc = NoError

\* The first rule of mapping schema m, in declaration order, that accepts
\* the pair; 0 when none does.
FirstRule(m, pr) ==
    IF \E j \in 1..Len(m.entries) : Accepts(m.entries[j], pr)
    THEN CHOOSE j \in 1..Len(m.entries) :
            /\ Accepts(m.entries[j], pr)
            /\ \A h \in 1..(j - 1) : ~Accepts(m.entries[h], pr)
    ELSE 0

\* Every key of the mapping node is a plain string and every pair is
\* accepted by some rule.
Scannable(m, node) ==
    \A k \in 1..Len(node.pairs) :
        node.pairs[k][1].tag = "str" /\ FirstRule(m, node.pairs[k]) # 0

\* The number of pairs counted for rule i: rules are counted by value, so
\* the pairs whose first accepting rule equals rule i.
Counted(m, node, i) ==
    Cardinality({k \in 1..Len(node.pairs) :
                    /\ FirstRule(m, node.pairs[k]) # 0
                    /\ m.entries[FirstRule(m, node.pairs[k])] = m.entries[i]})

MissingRequired(m, node, i) == m.entries[i].required /\ Counted(m, node, i) = 0
MoreThanOne(m, node, i) == ~m.entries[i].repeat /\ Counted(m, node, i) > 1
FailsCheck(m, node, i) == MissingRequired(m, node, i) \/ MoreThanOne(m, node, i)

\* The first rule, in declaration order, that fails a check; 0 when none.
FirstFailing(m, node) ==
    IF \E j \in 1..Len(m.entries) : FailsCheck(m, node, j)
    THEN CHOOSE j \in 1..Len(m.entries) :
            /\ FailsCheck(m, node, j)
            /\ \A h \in 1..(j - 1) : ~FailsCheck(m, node, h)
    ELSE 0

RequiredKeyMissing(rule, path) ==
    MappingError("Required key {} missing", keys_repr(rule), path)
MaximumOneAllowed(rule, path) ==
    MappingError("Maximum one of {} allowed", keys_repr(rule), path)

\* The error of the first rule that fails a check.
FirstFailingError(m, node, path) ==
    IF MissingRequired(m, node, FirstFailing(m, node))
    THEN RequiredKeyMissing(m.entries[FirstFailing(m, node)], path)
    ELSE MaximumOneAllowed(m.entries[FirstFailing(m, node)], path)

\* The root is a mapping matched by a mapping schema, and the first
\* iteration of the loop, which matches its children, is over.
RootMapScanned ==
    /\ schema.cls = "yamap"
    /\ doc.tag \in schema.tag
    /\ \/ pc \in {"raised", "returned"}
       \/ pc = "loop" /\ stack[1].branch_visited

\* Rule i of the root schema is required and no key of the document fully
\* matches a pattern of it, while every key is a plain string and every
\* pair is accepted by some rule.
RequiredUnmatched(i) ==
    /\ schema.entries[i].required
    /\ Scannable(schema, doc)
    /\ \A k \in 1..Len(doc.pairs) : ~KeyMatches(schema.entries[i], doc.pairs[k])

\* C1, as stated: a required rule that no key of the document matches makes
\* load raise 'Required key ... missing' naming the pattern set of that
\* rule and carrying the mapping node.
C1_NamesTheUnmatchedRule ==
    RootMapScanned =>
        \A i \in 1..Len(schema.entries) :
            RequiredUnmatched(i) =>
                /\ pc = "raised"
                /\ error = RequiredKeyMissing(schema.entries[i], <<>>)

\* C1, amended: a required rule (repeatable or not) that no key of the
\* document matches makes load raise a MappingError that carries the
\* mapping node, with no value returned and no node resolved; the error is
\* the one of the first declared rule that fails its check, so it is
\* 'Required key ... missing' naming this rule's pattern set when no rule
\* declared before it fails.  A rule that is required and repeatable and
\* counted twice or more never fails a check.
C1_RequiredKeyMissing ==
    RootMapScanned =>
        \A i \in 1..Len(schema.entries) :
            /\ RequiredUnmatched(i) =>
                  /\ pc = "raised"
                  /\ error = FirstFailingError(schema, doc, <<>>)
                  /\ error.kind = "MappingError" /\ error.node = <<>>
                  /\ result = PyNone /\ done = <<>>
                  /\ (\A h \in 1..(i - 1) : ~FailsCheck(schema, doc, h)) =>
                        error = RequiredKeyMissing(schema.entries[i], <<>>)
            /\ ( /\ schema.entries[i].required /\ schema.entries[i].repeat
                 /\ Scannable(schema, doc)
                 /\ Counted(schema, doc, i) >= 2 ) =>
                  /\ FirstFailing(schema, doc) # i
                  /\ FirstFailing(schema, doc) = 0 => error.kind # "MappingError"
                  /\ error.kind = "MappingError" =>
                        error = FirstFailingError(schema, doc, <<>>)

\* A required and repeatable rule that no key matches, in a document with
\* pairs, after the scan; and one counted twice with load going on.
C1_Witness ==
    /\ RootMapScanned
    /\ \E i \in 1..Len(schema.entries) :
          /\ RequiredUnmatched(i) /\ schema.entries[i].repeat
          /\ doc.pairs # <<>>
          /\ error = RequiredKeyMissing(schema.entries[i], <<>>)

\* Rule i of the root schema is not repeatable and two pairs of the
\* document have keys that fully match a pattern of it.
TwoKeysMatch(i) ==
    /\ ~schema.entries[i].repeat
    /\ \E k1, k2 \in 1..Len(doc.pairs) :
          /\ k1 # k2
          /\ KeyMatches(schema.entries[i], doc.pairs[k1])
          /\ KeyMatches(schema.entries[i], doc.pairs[k2])

\* C2, as stated: two keys fully matching the pattern of a non-repeatable
\* rule make load raise 'Maximum one of ... allowed' naming that rule.
C2_TwoMatchingKeysRaise ==
    RootMapScanned =>
        \A i \in 1..Len(schema.entries) :
            TwoKeysMatch(i) =>
                /\ pc = "raised"
                /\ error = MaximumOneAllowed(schema.entries[i], <<>>)

\* C2, amended: when every key of the document is a plain string and every
\* pair is accepted by some rule, and two or more pairs are counted for a
\* non-repeatable rule (it is the first rule in declaration order that
\* accepts them), load raises a MappingError carrying the mapping node and
\* returns no value: 'Maximum one of ... allowed' naming this rule's
\* pattern set, unless a rule declared before it fails its own check, whose
\* error is raised then.
C2_MaximumOneAllowed ==
    RootMapScanned =>
        \A i \in 1..Len(schema.entries) :
            ( /\ ~schema.entries[i].repeat
              /\ Scannable(schema, doc)
              /\ Counted(schema, doc, i) >= 2 ) =>
                /\ pc = "raised"
                /\ error.kind = "MappingError" /\ error.node = <<>>
                /\ result = PyNone /\ done = <<>>
                /\ IF \A h \in 1..(i - 1) : ~FailsCheck(schema, doc, h)
                   THEN error = MaximumOneAllowed(schema.entries[i], <<>>)
                   ELSE error = FirstFailingError(schema, doc, <<>>)
                        /\ FirstFailing(schema, doc) < i

\* Two pairs counted for a non-repeatable rule of a schema with two rules,
\* after the scan.
C2_Witness ==
    /\ RootMapScanned
    /\ Len(schema.entries) = 2
    /\ \E i \in 1..2 :
          /\ ~schema.entries[i].repeat
          /\ Scannable(schema, doc)
          /\ Counted(schema, doc, i) >= 2
          /\ error = MaximumOneAllowed(schema.entries[i], <<>>)


----------------------------------------------------------------------------
\* Alternations.

\* Candidate c, a concrete schema, accepts node: the tag of the node is one
\* of its tags and, for a scalar schema given a pattern, the pattern fully
\* matches the text of the node.
CandAccepts(c, node) ==
    /\ node.tag \in c.tag
    /\ c.cls \in ScalarClasses =>
          (c.value = NoRegex \/ fullmatch(c.value, node.value))

\* The positions of the candidates of alternation alt that accept node.
Accepting(alt, node) ==
    {k \in 1..Len(alt.entries) : CandAccepts(alt.entries[k], node)}

Least(S) == CHOOSE k \in S : \A g \in S : k <= g
Greatest(S) == CHOOSE k \in S : \A g \in S : g <= k

\* Every frame made so far for the node at path: on the stack or resolved.
FramesAt(path) ==
    {stack[j].schema : j \in {n \in 1..Len(stack) : stack[n].path = path}}
    \cup {done[j].schema : j \in {n \in 1..Len(done) : done[n].path = path}}

\* A sequence schema was built and is loading a sequence document.
SeqLoading == schema # NoSchema /\ schema.cls = "yaseq" /\ doc.tag = "seq"

\* C3: an alternation is first-match-wins in the order of the case()
\* calls.  The candidates of a sequence schema are the arguments of its
\* case() calls in call order; for every item of the document, matches
\* returns the lowest-index candidate accepting the item having consulted
\* no later candidate, so every frame made for the item carries that
\* candidate, and the same candidates in reversed order resolve an item
\* accepted by several of them via the one that is then first; an item no
\* candidate accepts (the empty alternation included) raises NoMatchingType
\* for that item, and load raises it without resolving anything.
C3_FirstMatchWins ==
    SeqLoading =>
        LET alt == schema.schema
            swapped == [alt EXCEPT !.entries = reversed(@)]
        IN  /\ Len(alt.entries) = Len(prog.calls)
            /\ \A k \in 1..Len(alt.entries) :
                  alt.entries[k] = mkobj(Build(prog.calls[k].schema).obj)
            /\ \A i \in 1..Len(doc.items) :
                  LET node == doc.items[i]
                      acc == Accepting(alt, node)
                      m == matches(alt, node, <<i>>)
                  IN  IF acc = {}
                      THEN /\ m.exc = NoMatchingType(<<i>>)
                           /\ FramesAt(<<i>>) = {}
                           /\ done = <<>>
                           /\ pc \in {"load", "loop", "raised"}
                           /\ pc = "raised" =>
                                 \E j \in 1..Len(doc.items) :
                                    /\ Accepting(alt, doc.items[j]) = {}
                                    /\ error = NoMatchingType(<<j>>)
                      ELSE /\ m.exc = NoError
                           /\ m.obj = alt.entries[Least(acc)]
                           /\ m.consulted = Least(acc)
                           /\ matches(swapped, node, <<i>>).obj =
                                 alt.entries[Greatest(acc)]
                           /\ FramesAt(<<i>>) \subseteq {alt.entries[Least(acc)]}

\* Two different candidates accept the first item, which was resolved via
\* the first of them, and load returned.
C3_Witness ==
    /\ SeqLoading
    /\ pc = "returned"
    /\ Len(doc.items) >= 1
    /\ Accepting(schema.schema, doc.items[1]) = {1, 2}
    /\ schema.schema.entries[1] # schema.schema.entries[2]
    /\ \E j \in 1..Len(done) :
          done[j].path = <<1>> /\ done[j].schema = schema.schema.entries[1]

\* No candidate accepts an item and load raised NoMatchingType for it.
C3_WitnessNoMatch ==
    /\ SeqLoading
    /\ pc = "raised"
    /\ \E i \in 1..Len(doc.items) :
          /\ Accepting(schema.schema, doc.items[i]) = {}
          /\ error = NoMatchingType(<<i>>)


----------------------------------------------------------------------------
\* Sequences.

\* The values the resolved frames of the node at path produced.
ResolvedAt(path) ==
    {done[j].resolved : j \in {n \in 1..Len(done) : done[n].path = path}}

\* list holds, in document order, the resolved values of the first
\* Len(list) items of the sequence node at path.
InDocumentOrder(list, path) ==
    /\ Len(list) <= Len(NodeAt(doc, path).items)
    /\ \A i \in 1..Len(list) : ResolvedAt(Append(path, i)) = {list[i]}

\* C4: the list handed to the resolve step of a sequence schema has one
\* element for each item of the document sequence, the i-th being the
\* resolved value of the i-th item.  While the frame of the sequence waits
\* on the stack its children hold the values of the items resolved so far
\* in document order; when the frame is on top again, and in every resolve
\* that was done, the list has exactly N elements.
C4_DocumentOrder ==
    /\ \A j \in 1..Len(stack) :
          (stack[j].schema.cls = "yaseq" /\ stack[j].branch_visited
              /\ pc = "loop") =>
             /\ InDocumentOrder(stack[j].children, stack[j].path)
             /\ j = Len(stack) =>
                   Len(stack[j].children) =
                       Len(NodeAt(doc, stack[j].path).items)
    /\ \A j \in 1..Len(done) :
          done[j].schema.cls = "yaseq" =>
             /\ done[j].value.kind = "list"
             /\ InDocumentOrder(done[j].value.items, done[j].path)
             /\ Len(done[j].value.items) =
                   Len(NodeAt(doc, done[j].path).items)

\* A sequence of two items that resolve to different values was resolved.
C4_Witness ==
    \E j \in 1..Len(done) :
        /\ done[j].schema.cls = "yaseq"
        /\ Len(done[j].value.items) = 2
        /\ done[j].value.items[1] # done[j].value.items[2]
        /\ pc = "returned"

\* The empty sequence was resolved from the empty list.
C4_WitnessEmpty ==
    \E j \in 1..Len(done) :
        /\ done[j].schema.cls = "yaseq"
        /\ NodeAt(doc, done[j].path).items = <<>>
        /\ done[j].value = PyList(<<>>)


----------------------------------------------------------------------------
\* Builder calls.

\* Every step of the builder machine leaves the objects the program holds
\* as they were, and a constructor or builder call returns a reference to
\* an object that did not exist before.
BuilderStep ==
    /\ Len(heap') >= Len(heap)
    /\ \A i \in 1..Len(heap) : heap'[i] = heap[i]
    /\ lastcall' # lastcall =>
          /\ lastcall'.ref = Len(heap) + 1
          /\ Len(heap') = Len(heap) + 1
          /\ lastcall'.ref # lastcall'.self

\* Two finished loads of the same document with the same object have the
\* same outcome, whatever was called between them.
LoadsAgree ==
    \A m, n \in 1..Len(loads) :
        (loads[m].finished /\ loads[n].finished
            /\ loads[m].ref = loads[n].ref /\ loads[m].doc = loads[n].doc) =>
           /\ loads[m].pc = loads[n].pc
           /\ loads[m].result = loads[n].result
           /\ loads[m].error = loads[n].error

\* C5: every builder call (yaoneof.case, yaentry.case, yamap.entry, case,
\* zero_or_one, exactly_one, zero_or_more, one_or_more, yaseq.case) returns
\* a new schema value and leaves the receiver, and every other object,
\* unchanged: its entries, keys and candidates stay what they were, and
\* loading a document with it gives the same outcome before and after.
C5_BuildersReturnNewValues == [][BuilderStep]_vars /\ []LoadsAgree

\* A document was loaded with a mapping schema, a builder was then called
\* on that schema and returned a different value, and the same document
\* has just been loaded with the schema again.
C5_Witness ==
    /\ Len(loads) = 2
    /\ loads[1].finished
    /\ pc \in {"returned", "raised"}
    /\ lastcall.self = loads[1].ref
    /\ loads[1].objs < lastcall.ref
    /\ heap[lastcall.self].cls = "yamap"
    /\ heap[lastcall.ref] # heap[lastcall.self]

----------------------------------------------------------------------------
\* Mappings resolved to the default container.

\* The frame done[j] resolved a mapping node with a mapping schema that has
\* the default type, dict, and the default pair constructor in every rule.
DefaultMapResolved(j) ==
    /\ done[j].schema.cls = "yamap"
    /\ done[j].schema.type = Callable("dict")
    /\ \A e \in 1..Len(done[j].schema.entries) :
          \A k \in 1..Len(done[j].schema.entries[e].keys) :
             done[j].schema.entries[e].keys[k][3] = Callable("pair")

\* The key of pair i of the mapping node at path, as constructed, and the
\* value its value node resolved to.
KeyOf(path, i) == PyStr(NodeAt(doc, path).pairs[i][1].value)
ValueOf(path, i) ==
    (CHOOSE d \in {done[n] : n \in 1..Len(done)} :
        d.path = Append(path, i) /\ d.schema.cls # "yaexpand").resolved

\* The positions of the pairs of the mapping node at path whose key did not
\* occur before, and the last position at which the key of pair i occurs.
FirstOccurrences(path) ==
    {i \in 1..Len(NodeAt(doc, path).pairs) :
        \A h \in 1..(i - 1) : KeyOf(path, h) # KeyOf(path, i)}
LastOccurrence(path, i) ==
    Greatest({h \in 1..Len(NodeAt(doc, path).pairs) :
                 KeyOf(path, h) = KeyOf(path, i)})

\* The claim as stated: the output holds one entry for each pair of the
\* document, in document order, duplicates of a key included.
C6_OneEntryPerPair ==
    \A j \in 1..Len(done) :
        DefaultMapResolved(j) =>
           /\ done[j].resolved.kind = "dict"
           /\ Len(done[j].resolved.items) = Len(NodeAt(doc, done[j].path).pairs)
           /\ \A i \in 1..Len(done[j].resolved.items) :
                 done[j].resolved.items[i] =
                    PyTuple(<<KeyOf(done[j].path, i), ValueOf(done[j].path, i)>>)

\* C6: a mapping resolved to the default container, a dict, holds one
\* entry for each distinct key of the document, in the order of the first
\* occurrences of the keys, and the value of an entry is the resolved
\* value of the last pair that carries its key: a later pair with the same
\* key overwrites the value of the earlier one.
C6_OneEntryPerKey ==
    \A j \in 1..Len(done) :
        DefaultMapResolved(j) =>
           LET path == done[j].path
               out == done[j].resolved
               firsts == FirstOccurrences(path)
           IN  /\ out.kind = "dict"
               /\ Len(out.items) = Cardinality(firsts)
               /\ \A i \in firsts :
                     out.items[Cardinality({h \in firsts : h <= i})] =
                        PyTuple(<<KeyOf(path, i),
                                  ValueOf(path, LastOccurrence(path, i))>>)

\* A mapping of two pairs with the same key and different values was
\* resolved, and load returned a dict of one entry.
C6_Witness ==
    /\ pc = "returned"
    /\ \E j \in 1..Len(done) :
          /\ DefaultMapResolved(j)
          /\ done[j].path = <<>>
          /\ Len(doc.pairs) = 2
          /\ KeyOf(<<>>, 1) = KeyOf(<<>>, 2)
          /\ ValueOf(<<>>, 1) # ValueOf(<<>>, 2)
          /\ result = PyDict(<<PyTuple(<<KeyOf(<<>>, 1), ValueOf(<<>>, 2)>>)>>)


----------------------------------------------------------------------------
\* Squash.

\* The schema is a mapping schema in squash mode whose only entry rule is
\* one exactly_one key rule, and load of a mapping whose keys are plain
\* strings and whose pairs the rule accepts is over.
SquashOneLoaded ==
    /\ schema # NoSchema
    /\ schema.cls = "yamap"
    /\ schema.type.wrap = "squash"
    /\ Len(prog.calls) = 1
    /\ prog.calls[1].method = "exactly_one"
    /\ doc.tag = "map"
    /\ Scannable(schema, doc)
    /\ pc \in {"returned", "raised"}

\* What the pair constructor of the only rule made of pair i.
PairOf(i) ==
    Call(schema.entries[1].keys[1][3].fn,
         <<KeyOf(<<>>, i), ValueOf(<<>>, i)>>, <<>>).val

C7_WitnessTwoKeys ==
    /\ SquashOneLoaded
    /\ Len(doc.pairs) = 2
    /\ error = MaximumOneAllowed(schema.entries[1], <<>>)


----------------------------------------------------------------------------
\* Construction.

\* The constructor call of expression e declares transforms that do not go
\* together: a mapping with both squash and unpack, or with one of them and
\* no type, or a sequence with unpack and no type.
InconsistentCall(e) ==
    \/ /\ e.op = "yamap"
       /\ \/ e.squash /\ e.unpack
          \/ e.type = None /\ (e.squash \/ e.unpack)
    \/ /\ e.op = "yaseq"
       /\ e.type = None /\ e.unpack

\* Expression e, or an expression among the arguments of its builder
\* calls, makes such a constructor call.
RECURSIVE Inconsistent(_)
Inconsistent(e) ==
    \/ InconsistentCall(e)
    \/ \E k \in 1..Len(e.calls) : Inconsistent(e.calls[k].schema)

SchemaErrors ==
    {SchemaError("squash and unpack cannot be used at the same time"),
     SchemaError("squash and unpack require a type"),
     SchemaError("unpack requires a type")}

C8_WitnessConstructed ==
    /\ prog.op = "yamap" /\ prog.squash /\ ~prog.unpack
    /\ schema # NoSchema
    /\ schema.type.wrap = "squash"


----------------------------------------------------------------------------
\* The shipped examples.

\* C9: the schemas of examples/pipeline.py and examples/squashdict.py, a
\* sequence with a candidate mapping declared with type=entry, squash=True
\* and unpack=True, construct successfully, and loading their documents
\* returns one constructed item for each element of the sequence, in
\* document order, each built by the candidate that matched the element.
C9_ExamplesConstructAndLoad ==
    prog \in {pipeline_schema, squashdict_schema} =>
        /\ pc # "raised"
        /\ pc # "construct" => schema # NoSchema /\ schema.cls = "yaseq"
        /\ pc = "returned" =>
              \E j \in 1..Len(done) :
                 /\ done[j].path = <<>>
                 /\ Len(done[j].value.items) = Len(doc.items)
                 /\ InDocumentOrder(done[j].value.items, <<>>)
                 /\ \A i \in 1..Len(doc.items) :
                       FramesAt(<<i>>) =
                          {schema.schema.entries[
                              Least(Accepting(schema.schema, doc.items[i]))]}


----------------------------------------------------------------------------
\* Validation before resolution.

\* The frames made for mapping nodes matched by mapping schemas, waiting
\* on the stack or resolved.
MapFrames ==
    {[path |-> stack[j].path, schema |-> stack[j].schema] :
        j \in {n \in 1..Len(stack) : stack[n].schema.cls = "yamap"}}
    \cup {[path |-> done[j].path, schema |-> done[j].schema] :
             j \in {n \in 1..Len(done) : done[n].schema.cls = "yamap"}}

\* The key scan of the mapping frame m and all its cardinality checks
\* pass: every key is a plain string, every pair is accepted by a rule,
\* every required rule is counted at least once and every rule that is not
\* repeatable at most once.
Validated(m) ==
    /\ Scannable(m.schema, NodeAt(doc, m.path))
    /\ \A i \in 1..Len(m.schema.entries) :
          /\ m.schema.entries[i].required =>
                Counted(m.schema, NodeAt(doc, m.path), i) >= 1
          /\ ~m.schema.entries[i].repeat =>
                Counted(m.schema, NodeAt(doc, m.path), i) <= 1

\* Something below the node at path was constructed and resolved.
DescendantResolved(path) ==
    \E j \in 1..Len(done) : IsStrictPrefix(path, done[j].path)

\* In every state: a mapping frame with a resolved descendant, and every
\* mapping that was resolved itself, is validated.
ValidatedBeforeResolved ==
    \A m \in MapFrames :
        (DescendantResolved(m.path) \/ \E j \in 1..Len(done) : done[j].path = m.path)
            => Validated(m)

\* In every step that pops a frame: every mapping frame the popped frame
\* is a descendant of is validated.
PopsBelowValidated ==
    (/\ pc = "loop" /\ stack # <<>> /\ stack' # stack
     /\ \/ top.branch_visited
        \/ match_children(top.schema, top.node, top.path).isNone) =>
       \A m \in MapFrames : IsStrictPrefix(m.path, top.path) => Validated(m)

\* C10: no descendant of a mapping frame is constructed or resolved until
\* the key scan and all the cardinality checks of the mapping have passed.
\* Whenever a frame below a mapping frame is popped, and whenever a value
\* below it has been resolved, every required rule of the mapping was
\* counted at least once and every non-repeatable rule at most once; when
\* the scan or a check fails, load raises with nothing below the mapping
\* resolved.
C10_ValidatedBeforeChildren ==
    []ValidatedBeforeResolved /\ [][PopsBelowValidated]_vars

\* A child of a mapping that has a required, non-repeatable rule was
\* resolved while the mapping waits on the stack.
C10_Witness ==
    /\ pc = "loop"
    /\ Len(stack) >= 1
    /\ stack[1].schema.cls = "yamap"
    /\ \E i \in 1..Len(stack[1].schema.entries) :
          stack[1].schema.entries[i].required /\ ~stack[1].schema.entries[i].repeat
    /\ DescendantResolved(<<>>)

\* A check of a mapping failed and load raised with nothing resolved.
C10_WitnessFailed ==
    /\ pc = "raised"
    /\ Len(stack) >= 1
    /\ stack[1].schema.cls = "yamap"
    /\ FirstFailing(stack[1].schema, doc) # 0
    /\ done = <<>>


----------------------------------------------------------------------------
\* How often a node is matched.

\* The paths of the nodes of the tree below and including the node at path:
\* the node itself, the key and the value of every pair of a mapping, the
\* items of a sequence.
RECURSIVE Nodes(_, _)
Nodes(node, path) ==
    {path} \cup
    (IF node.tag = "map"
     THEN UNION {{KeyPath(path, i)} \cup Nodes(node.pairs[i][2], Append(path, i)) :
                    i \in 1..Len(node.pairs)}
     ELSE IF node.tag = "seq"
     THEN UNION {Nodes(node.items[i], Append(path, i)) : i \in 1..Len(node.items)}
     ELSE {})

IsKeyPath(path) == path # <<>> /\ path[Len(path)] = 0

\* The node at path is the value of a pair of a mapping.
IsMapValue(path) ==
    /\ path # <<>>
    /\ ~IsKeyPath(path)
    /\ NodeAt(doc, SubSeq(path, 1, Len(path) - 1)).tag = "map"

\* The node at path has no children to push: it is constructed as a leaf.
IsLeaf(path) == NodeAt(doc, path).tag \notin {"map", "seq"}

\* The number of times schema.matches(node) returned for the node at path.
MatchCount(path) ==
    Cardinality({k \in 1..Len(log) : log[k].ev = "matches" /\ log[k].path = path})

\* The number of times the code matches the node at path in a load that
\* returns: once when its parent (or load, for the root) selects its schema,
\* once more by yaexpand.match_children when it is the value of a pair, and
\* once more by the loop when it is constructed as a leaf; a key is matched
\* against patterns only, never against a schema.
TimesMatched(path) ==
    IF IsKeyPath(path) THEN 0
    ELSE 1 + (IF IsMapValue(path) THEN 1 ELSE 0) + (IF IsLeaf(path) THEN 1 ELSE 0)

\* C11 as stated: when load returns, schema.matches has returned exactly
\* once for every node of the document that is not a key.
C11_MatchedExactlyOnce ==
    pc = "returned" =>
        \A p \in Nodes(doc, <<>>) : ~IsKeyPath(p) => MatchCount(p) = 1

\* C11: during one load call schema.matches(node) returns once for a branch
\* node that is the root or an item of a sequence, twice for a branch node
\* that is the value of a pair (entry-rule scan, then entry expansion) and
\* one more time for every leaf (leaf construction), so two times for a
\* leaf root or item and three times for a leaf value; it is never called
\* for a key.  No node is matched more often than that at any time, and
\* every node exactly that often when load returns.
C11_MatchedOncePerSite ==
    /\ pc \in {"loop", "returned", "raised"} =>
          \A p \in Nodes(doc, <<>>) : MatchCount(p) <= TimesMatched(p)
    /\ pc = "returned" =>
          \A p \in Nodes(doc, <<>>) : MatchCount(p) = TimesMatched(p)

\* load returned a mapping with a scalar value, matched three times, and a
\* key, never matched.
C11_Witness ==
    /\ pc = "returned"
    /\ doc.tag = "map"
    /\ \E i \in 1..Len(doc.pairs) :
          /\ IsLeaf(<<i>>)
          /\ MatchCount(<<i>>) = 3
          /\ MatchCount(KeyPath(<<>>, i)) = 0

\* load returned a sequence with a mapping item, matched once.
C11_WitnessOnce ==
    /\ pc = "returned"
    /\ doc.tag = "seq"
    /\ \E i \in 1..Len(doc.items) : ~IsLeaf(<<i>>) /\ MatchCount(<<i>>) = 1


----------------------------------------------------------------------------
\* Termination and the work done per frame.

Terminated == pc \in {"returned", "raised"}

\* The program is sequential and waits for nothing: as long as load has
\* neither returned nor raised, its next step is taken.
SpecLive == Spec /\ WF_steps(~Terminated /\ steps' = steps + 1)

\* The program can take that step whenever it has not ended: the schema
\* expression can be evaluated, load can be called, and the loop finds a
\* frame on the stack.
CanStep == pc = "loop" => stack # <<>>

\* The frames pushed so far.
Frames ==
    {[path |-> log[k].path, expand |-> log[k].expand] :
        k \in {n \in 1..Len(log) : log[n].ev = "push"}}

\* The number of events ev the history holds for the frame f.
Count(ev, f) ==
    Cardinality({k \in 1..Len(log) : log[k] = Event(ev, f.path, f.expand)})

\* The frame f is a leaf: its schema is no yaexpand and its node has no
\* children.
IsLeafFrame(f) == ~f.expand /\ IsLeaf(f.path)

\* No frame is pushed after it was popped.
NeverPushedAgain ==
    \A k, l \in 1..Len(log) :
        (k < l /\ log[k].ev = "pop" /\ log[l].ev = "push") =>
            ~(log[k].path = log[l].path /\ log[k].expand = log[l].expand)

\* C12 as stated, of a load that ended: every leaf frame was inspected
\* exactly once, every branch frame at most twice, match_children was
\* called at most once per frame and no popped frame was pushed again.
C12_LeafInspectedExactlyOnce ==
    Terminated =>
        /\ \A f \in Frames :
              /\ IsLeafFrame(f) => Count("inspect", f) = 1
              /\ ~IsLeafFrame(f) => Count("inspect", f) <= 2
              /\ Count("match_children", f) <= 1
        /\ NeverPushedAgain

\* At every moment of a load: a leaf frame was inspected at most once, a
\* branch frame at most twice, match_children was called at most once per
\* frame, every frame was pushed once and none after it was popped; when
\* load returns, every frame pushed was popped, every leaf frame inspected
\* exactly once and every branch frame exactly twice, with one call of
\* match_children each.
BoundedVisits ==
    /\ \A f \in Frames :
          /\ Count("push", f) = 1
          /\ Count("pop", f) <= 1
          /\ Count("match_children", f) <= 1
          /\ Count("inspect", f) <= (IF IsLeafFrame(f) THEN 1 ELSE 2)
          /\ pc = "returned" =>
                /\ Count("pop", f) = 1
                /\ Count("match_children", f) = 1
                /\ Count("inspect", f) = (IF IsLeafFrame(f) THEN 1 ELSE 2)
    /\ NeverPushedAgain

\* C12: for every document and every schema the loop ends by returning or
\* raising, and on the way each leaf frame is inspected at the top of the
\* stack at most once, each branch frame at most twice (once to expand,
\* once to resolve), match_children is called at most once per frame and
\* no frame is pushed again after it was popped; in a load that returns,
\* each leaf frame is inspected exactly once and each branch frame twice.
C12_TerminatesWithBoundedVisits ==
    []BoundedVisits /\ []CanStep /\ <>Terminated

\* load returned after a branch frame was inspected twice and a leaf frame
\* once.
C12_Witness ==
    /\ pc = "returned"
    /\ \E f, g \in Frames :
          /\ IsLeafFrame(f) /\ Count("inspect", f) = 1
          /\ ~IsLeafFrame(g) /\ Count("inspect", g) = 2

\* load raised with a leaf frame on the stack that was never inspected.
C12_WitnessRaised ==
    /\ pc = "raised"
    /\ \E f \in Frames : IsLeafFrame(f) /\ Count("inspect", f) = 0


----------------------------------------------------------------------------
\* Which rule a pair of a mapping is counted for.

\* The positions of s a match of the first i atoms can end before, found
\* by running the atoms forward from the start of s.
RECURSIVE EndsAfter(_, _, _)
EndsAfter(atoms, i, s) ==
    IF i = 0 THEN {1}
    ELSE {q \in 2..(Len(s) + 1) :
             \E p \in EndsAfter(atoms, i - 1, s) :
                /\ p < q
                /\ atoms[i].plus \/ q = p + 1
                /\ \A r \in p..(q - 1) : AtomMatches(atoms[i], s[r])}

\* The pattern matches the whole of s, from its start to its end.
Anchored(regex, s) == (Len(s) + 1) \in EndsAfter(regex.atoms, Len(regex.atoms), s)

\* Pattern n of the rule qualifies for the pair: it matches the whole key
\* and its value schema matches the value.
Qualifies(rule, n, pr) ==
    /\ Anchored(rule.keys[n][1], pr[1].value)
    /\ matches(rule.keys[n][2], pr[2], <<>>).exc = NoError

\* The (rule, pattern) positions of the mapping schema sch that qualify for
\* the pair, and the first of them: rules in declaration order, and the
\* patterns of a rule in the order of its case() calls.
Qualifying(sch, pr) ==
    {q \in (1..Len(sch.entries)) \X (1..MaxRules + 1) :
        q[2] <= Len(sch.entries[q[1]].keys) /\ Qualifies(sch.entries[q[1]], q[2], pr)}
FirstQualifying(sch, pr) ==
    CHOOSE q \in Qualifying(sch, pr) :
        \A r \in Qualifying(sch, pr) : q[1] < r[1] \/ (q[1] = r[1] /\ q[2] <= r[2])

\* The positions in the history of the increments of a counter made for
\* the pair with the value at path.
CountEvents(path) ==
    {k \in 1..Len(log) : log[k].ev = "count" /\ log[k].path = path}

\* The mapping frames whose match_children was called.
ScannedMaps ==
    {m \in MapFrames : Count("match_children", [path |-> m.path, expand |-> FALSE]) = 1}

\* The entry-expansion schemas of the frames made for the value at path.
ExpandAt(path) == {x \in FramesAt(path) : x.cls = "yaexpand"}

\* Pair k of the mapping frame m was counted once, for the first rule that
\* qualifies, and its child carries the key, the schema the value schema
\* of the first qualifying pattern of that rule matched to, and the pair
\* constructor of that pattern.
PairCounted(m, k) ==
    LET pr == NodeAt(doc, m.path).pairs[k]
        vpath == Append(m.path, k)
        q == FirstQualifying(m.schema, pr)
        key == m.schema.entries[q[1]].keys[q[2]]
        child == yaexpand_init(pr[1].value, matches(key[2], pr[2], vpath).obj, key[3])
    IN  /\ pr[1].tag = "str"
        /\ Qualifying(m.schema, pr) # {}
        /\ Cardinality(CountEvents(vpath)) = 1
        /\ \A e \in CountEvents(vpath) : log[e].entry = m.schema.entries[q[1]]
        /\ ExpandAt(vpath) \subseteq {child}
        /\ pc # "raised" => ExpandAt(vpath) = {child}

\* C13: for each (key, value) pair of a mapping exactly one counter is
\* incremented, that of the first rule in declaration order with a pattern
\* that matches the whole key and whose value schema matches the value; a
\* pattern whose value schema rejects the value is passed over and later
\* patterns and rules are tried; the entry-expansion child carries the key,
\* the matched value schema and the pair constructor of the pattern
\* selected; when no rule qualifies for a pair with a string key the scan
\* ends there with NoMatchingType at the key node, the pairs the scan did
\* not reach (those before it in the document) being counted for nothing.
C13_FirstQualifyingRuleCounted ==
    \A m \in ScannedMaps :
        LET node == NodeAt(doc, m.path)
            U == {k \in 1..Len(node.pairs) : CountEvents(Append(m.path, k)) = {}}
        IN  /\ \A k \in (1..Len(node.pairs)) \ U : PairCounted(m, k)
            /\ U # {} =>
                  /\ pc = "raised"
                  /\ \E k \in U :
                        /\ U = 1..k
                        /\ \/ node.pairs[k][1].tag # "str"
                           \/ /\ Qualifying(m.schema, node.pairs[k]) = {}
                              /\ error = NoMatchingType(KeyPath(m.path, k))

\* Some pattern of a rule declared before rule j of the schema matches a
\* prefix of the key of the pair but not the whole key.
PrefixOnly(sch, j, pr) ==
    \E h \in 1..(j - 1) : \E n \in 1..Len(sch.entries[h].keys) :
        /\ MatchFromPrefix(sch.entries[h].keys[n][1].atoms, 1, pr[1].value, 1)
        /\ ~Anchored(sch.entries[h].keys[n][1], pr[1].value)

\* load returned a mapping with a pair counted for a later rule than one
\* whose pattern matches a prefix of its key only, and a pair counted for a
\* rule by its second pattern, with the pair constructor of that pattern.
C13_Witness ==
    /\ pc = "returned"
    /\ doc.tag = "map"
    /\ schema.cls = "yamap"
    /\ \E k \in 1..Len(doc.pairs) :
          /\ Qualifying(schema, doc.pairs[k]) # {}
          /\ PrefixOnly(schema, FirstQualifying(schema, doc.pairs[k])[1], doc.pairs[k])
    /\ \E k \in 1..Len(doc.pairs) :
          /\ Qualifying(schema, doc.pairs[k]) # {}
          /\ FirstQualifying(schema, doc.pairs[k])[2] = 2
          /\ \E x \in ExpandAt(<<k>>) : x.type = Callable("entry")

\* load returned a mapping with a pair counted by the second pattern of a
\* rule whose first pattern matches the key too, with a value schema that
\* rejects the value.
C13_WitnessLaterPattern ==
    /\ pc = "returned"
    /\ doc.tag = "map"
    /\ schema.cls = "yamap"
    /\ \E k \in 1..Len(doc.pairs) :
          /\ Qualifying(schema, doc.pairs[k]) # {}
          /\ LET q == FirstQualifying(schema, doc.pairs[k])
             IN  /\ q[2] = 2
                 /\ Anchored(schema.entries[q[1]].keys[1][1], doc.pairs[k][1].value)

\* load raised NoMatchingType at the key of a pair whose key a pattern
\* matches while the value schema of that pattern rejects its value.
C13_WitnessNoRule ==
    /\ pc = "raised"
    /\ doc.tag = "map"
    /\ schema.cls = "yamap"
    /\ \E k \in 1..Len(doc.pairs) :
          /\ error = NoMatchingType(KeyPath(<<>>, k))
          /\ \E j \in 1..Len(schema.entries) :
                Anchored(schema.entries[j].keys[1][1], doc.pairs[k][1].value)


----------------------------------------------------------------------------
\* Which offending child an error names.

\* The sequence frames whose match_children was called.
ScannedSeqs ==
    {f \in {[path |-> stack[j].path, schema |-> stack[j].schema] :
               j \in {n \in 1..Len(stack) : stack[n].schema.cls = "yaseq"}} :
        Count("match_children", [path |-> f.path, expand |-> FALSE]) = 1}

\* The offending pairs of the mapping frame m: the key is not a plain
\* string, or no rule accepts the pair.
OffendingPairs(m) ==
    {k \in 1..Len(NodeAt(doc, m.path).pairs) :
        \/ NodeAt(doc, m.path).pairs[k][1].tag # "str"
        \/ FirstRule(m.schema, NodeAt(doc, m.path).pairs[k]) = 0}

\* The error the scan raises for the offending pair k of the frame m.
PairError(m, k) ==
    IF NodeAt(doc, m.path).pairs[k][1].tag # "str"
    THEN MappingError("Only plain strings supported as mapping keys", <<>>,
                      KeyPath(m.path, k))
    ELSE NoMatchingType(KeyPath(m.path, k))

\* The offending items of the sequence frame f: no candidate accepts them.
OffendingItems(f) ==
    {k \in 1..Len(NodeAt(doc, f.path).items) :
        Accepting(f.schema.schema, NodeAt(doc, f.path).items[k]) = {}}

\* C14 as stated: the error raised for a mapping with offending pairs
\* identifies the key node of the first of them in document order, and the
\* NoMatchingType raised for a sequence with items no candidate accepts
\* identifies the first of them.
C14_FirstOffendingReported ==
    /\ \A m \in ScannedMaps :
          OffendingPairs(m) # {} =>
             pc = "raised" /\ error = PairError(m, Least(OffendingPairs(m)))
    /\ \A f \in ScannedSeqs :
          OffendingItems(f) # {} =>
             /\ pc = "raised"
             /\ error = NoMatchingType(Append(f.path, Least(OffendingItems(f))))

\* C14: the children of a branch are scanned from the last to the first:
\* the error raised for a mapping with offending pairs (a key that is not a
\* plain string, or a pair no rule accepts) identifies the key node of the
\* last of them in document order, and the NoMatchingType raised for a
\* sequence with items no candidate accepts identifies the last of them.
C14_LastOffendingReported ==
    /\ \A m \in ScannedMaps :
          OffendingPairs(m) # {} =>
             pc = "raised" /\ error = PairError(m, Greatest(OffendingPairs(m)))
    /\ \A f \in ScannedSeqs :
          OffendingItems(f) # {} =>
             /\ pc = "raised"
             /\ error = NoMatchingType(Append(f.path, Greatest(OffendingItems(f))))

\* load raised for a mapping with two offending pairs of different kinds,
\* naming the key of the second.
C14_Witness ==
    /\ pc = "raised"
    /\ \E m \in ScannedMaps :
          /\ m.path = <<>>
          /\ OffendingPairs(m) = {1, 2}
          /\ PairError(m, 1).kind # PairError(m, 2).kind
          /\ error = PairError(m, 2)

\* load raised for a sequence with two offending items, naming the second.
C14_WitnessSeq ==
    /\ pc = "raised"
    /\ \E f \in ScannedSeqs :
          /\ f.path = <<>>
          /\ OffendingItems(f) = {1, 2}
          /\ error = NoMatchingType(<<2>>)


----------------------------------------------------------------------------
\* The shape of the stack.

\* The frame that stackitem x is.
FrameOf(x) == [path |-> x.path, expand |-> IsExpand(x.schema)]

\* The number of child frames pushed while the generator of the frame f
\* ran: the pushes that follow its match_children call with nothing but
\* matches, counts and pushes in between.
PushedBy(f) ==
    Cardinality({k \in 1..Len(log) :
        /\ log[k].ev = "push"
        /\ \E c \in 1..(k - 1) :
              /\ log[c] = Event("match_children", f.path, f.expand)
              /\ \A x \in (c + 1)..(k - 1) : log[x].ev \in {"matches", "count", "push"}})

\* The bottom frame is the root and the only one without a parent, and
\* the parent of every other frame lies strictly below it on the stack and
\* is the frame of the node the child belongs to.
ParentsBelow ==
    \A j \in 1..Len(stack) :
        /\ (stack[j].parent = 0) <=> (j = 1)
        /\ j = 1 => stack[j].path = <<>> /\ stack[j].node = doc
        /\ j > 1 =>
              /\ stack[j].parent \in 1..(j - 1)
              /\ stack[stack[j].parent].branch_visited \/ pc = "raised"
              /\ LET above == stack[stack[j].parent]
                 IN  IF IsExpand(above.schema) THEN stack[j].path = above.path
                     ELSE /\ Len(stack[j].path) = Len(above.path) + 1
                          /\ IsStrictPrefix(above.path, stack[j].path)

\* A visited branch frame holds one resolved value for each child frame it
\* pushed that was popped since; on top of the stack, where it is popped
\* next, it holds one for each child frame it pushed, and exactly one if it
\* is an entry-expansion frame.
OneValuePerChild ==
    pc = "loop" =>
        \A j \in 1..Len(stack) :
            stack[j].branch_visited =>
                /\ Len(stack[j].children)
                      + Cardinality({n \in 1..Len(stack) : stack[n].parent = j})
                      = PushedBy(FrameOf(stack[j]))
                /\ \A i \in 1..Len(stack[j].children) :
                      \E n \in 1..Len(done) : done[n].resolved = stack[j].children[i]
                /\ j = Len(stack) =>
                      /\ Len(stack[j].children) = PushedBy(FrameOf(stack[j]))
                      /\ IsExpand(stack[j].schema) => Len(stack[j].children) = 1

\* load has returned only with the root frame popped, last of all frames,
\* and the stack empty.
ReturnedOnRootPop ==
    pc = "returned" =>
        /\ stack = <<>>
        /\ done # <<>>
        /\ done[Len(done)].path = <<>>
        /\ done[Len(done)].resolved = result
        /\ \A f \in Frames : Count("pop", f) = 1

\* C15: in every state of load the bottom frame of the stack is the root
\* and the only frame without a parent, every other frame has its parent
\* strictly below it on the stack; a visited branch frame that is popped
\* holds exactly one resolved value per child frame it pushed, so an
\* entry-expansion frame exactly one; and load returns only when the root
\* frame is popped and the stack is empty.
C15_StackInvariant == ParentsBelow /\ OneValuePerChild /\ ReturnedOnRootPop

\* An entry-expansion frame with its one child value is on top of a stack
\* of three frames, about to be popped.
C15_Witness ==
    /\ pc = "loop"
    /\ Len(stack) >= 3
    /\ top.branch_visited
    /\ IsExpand(top.schema)
    /\ Len(top.children) = 1
    /\ top.parent = Len(stack) - 1

\* The root frame, visited, holds one value for each of its two children
\* and is about to be popped.
C15_WitnessRoot ==
    /\ pc = "loop"
    /\ Len(stack) = 1
    /\ top.branch_visited
    /\ Len(top.children) = 2


----------------------------------------------------------------------------
\* Selection looks at the node alone and is final.

\* The schema c accepts the node by what the node itself is: its tag, and
\* for a scalar schema with a value pattern the whole of its value.
TagAccepts(c, node) ==
    /\ node.tag \in c.tag
    /\ (c.cls \in ScalarClasses /\ c.value # NoRegex) => Anchored(c.value, node.value)

\* The candidates of the sequence schema sch that accept the node so.
ItemCandidates(sch, node) ==
    {k \in 1..Len(sch.schema.entries) : TagAccepts(sch.schema.entries[k], node)}

\* The (rule, pattern) positions of the mapping schema sch with a pattern
\* matching the whole key and a value schema that accepts the value so.
ValueCandidates(sch, pr) ==
    {q \in (1..Len(sch.entries)) \X (1..MaxRules + 1) :
        /\ q[2] <= Len(sch.entries[q[1]].keys)
        /\ Anchored(sch.entries[q[1]].keys[q[2]][1], pr[1].value)
        /\ TagAccepts(sch.entries[q[1]].keys[q[2]][2], pr[2])}

\* The schema of every frame on the stack is the one selected for its node
\* by its parent, the first candidate that accepts the node as it is.
SelectedByTag ==
    \A j \in 2..Len(stack) :
        LET x == stack[j]
            above == stack[x.parent]
            k == x.path[Len(x.path)]
        IN  CASE above.schema.cls = "yaseq" ->
                   /\ ItemCandidates(above.schema, x.node) # {}
                   /\ x.schema = above.schema.schema.entries[
                                    Least(ItemCandidates(above.schema, x.node))]
              [] above.schema.cls = "yamap" ->
                   LET pr == above.node.pairs[k]
                       Q == ValueCandidates(above.schema, pr)
                   IN  /\ Q # {}
                       /\ IsExpand(x.schema)
                       /\ \E q \in Q :
                             /\ \A r \in Q : q[1] < r[1] \/ (q[1] = r[1] /\ q[2] <= r[2])
                             /\ x.schema.value_schema =
                                   above.schema.entries[q[1]].keys[q[2]][2]
              [] OTHER -> x.schema = above.schema.value_schema

\* The scan or a check of the mapping frame m fails.
ChildrenFail(m) ==
    OffendingPairs(m) # {} \/ FirstFailing(m.schema, NodeAt(doc, m.path)) # 0

\* The error of the failing mapping frame m.
ChildrenError(m) ==
    IF OffendingPairs(m) # {} THEN PairError(m, Greatest(OffendingPairs(m)))
    ELSE FirstFailingError(m.schema, NodeAt(doc, m.path), m.path)

\* A mapping frame whose children fail ends load with the error of its
\* children; no value is returned and the node gets no other frame.
Committed ==
    \A m \in ScannedMaps :
        ChildrenFail(m) =>
            /\ pc = "raised"
            /\ error = ChildrenError(m)
            /\ result = PyNone
            /\ Count("push", [path |-> m.path, expand |-> FALSE]) = 1
            /\ \A x \in FramesAt(m.path) : ~IsExpand(x) => x = m.schema

\* C16: a candidate of an alternation or the value schema of an entry rule
\* is selected for a node by the tag of the node (and its value, for a
\* scalar schema with a pattern) without a look at its children, and the
\* selection is final: a NoMatchingType or cardinality error raised later
\* for the children of the node ends load with that error, whatever any
\* later candidate or rule would have accepted.
C16_ShallowAndCommitted == SelectedByTag /\ Committed

\* The mapping schema c accepts the mapping node and all its pairs.
WouldAccept(c, node) ==
    /\ c.cls = "yamap"
    /\ node.tag \in c.tag
    /\ Scannable(c, node)
    /\ FirstFailing(c, node) = 0

\* load raised for the children of an item of a sequence although a later
\* candidate accepts the item and its children.
C16_Witness ==
    /\ pc = "raised"
    /\ schema.cls = "yaseq"
    /\ \E m \in ScannedMaps :
          /\ Len(m.path) = 1
          /\ ChildrenFail(m)
          /\ \E k \in 1..Len(schema.schema.entries) :
                /\ k > Least(ItemCandidates(schema, NodeAt(doc, m.path)))
                /\ WouldAccept(schema.schema.entries[k], NodeAt(doc, m.path))

\* load raised for the children of a value of a mapping although the value
\* schema of a later rule accepts the value and its children.
C16_WitnessRule ==
    /\ pc = "raised"
    /\ schema.cls = "yamap"
    /\ \E m \in ScannedMaps :
          /\ Len(m.path) = 1
          /\ ChildrenFail(m)
          /\ m.schema = schema.entries[1].keys[1][2]
          /\ WouldAccept(schema.entries[2].keys[1][2], NodeAt(doc, m.path))

====
